---- MODULE Spec2Model ----
(***************************************************************************)
(* A model of jiten-parser-py: the deconjugation engine (deconjugator.py), *)
(* the candidate resolver and its cache (parser.py), the scoring function  *)
(* (jmdict/jmdict_word.py) and the token combination passes                *)
(* (morphological_analyser.py).                                            *)
(*                                                                         *)
(* A text (a Python str) is a sequence of characters; a character is a     *)
(* short string naming one kana or kanji ("ta" is the hiragana ta, "TA"    *)
(* the katakana, "K1" a kanji).  The empty sequence is the empty string.   *)
(***************************************************************************)
EXTENDS Integers, Sequences, FiniteSets, TLC

VARIABLES
    d_text,        \* deconjugate: the text argument
    rules,         \* Deconjugator.rules, the loaded rule table
    processed,     \* deconjugate: the local set `processed`
    novel,         \* deconjugate: the local set `novel` (the frontier)
    d_pc,          \* deconjugate: "idle" | "loop" | "done"
    d_round,       \* deconjugate: completed iterations of `while novel`
    d_use_cache,   \* Deconjugator.USE_CACHE
    d_cache,       \* Deconjugator._deconjugation_cache: text -> set of forms
    d_calls,       \* number of deconjugate calls made so far
    d_others,      \* how many memo entries are stored under texts outside Texts
    d_caller       \* the caller's side of the returned set object: `same` is the
                   \* set of memo keys whose stored set is that very object,
                   \* `held` its contents once the caller has modified it

d_vars == <<d_text, rules, processed, novel, d_pc, d_round, d_use_cache, d_cache, d_calls,
            d_others, d_caller>>

VARIABLES
    s_word,        \* get_priority_score: self, the JmDictWord scored
    s_scores       \* the scores returned so far for s_word, by the is_kana argument

s_vars == <<s_word, s_scores>>

VARIABLES
    l_dict,        \* the dictionary: the JmDictWord rows in table order
    l_word,        \* the WordInfo a lookup is called with
    l_order,       \* the iteration order of Python sets in this process (1 or 2)
    l_out          \* what the lookup call returned, with its locals; <<>> before

l_vars == <<l_dict, l_word, l_order, l_out>>

VARIABLES
    r_use_cache,   \* Parser.USE_CACHE
    r_lists,       \* the Python list objects made by the resolver, by reference
    r_objs,        \* the DeckWord objects made by the resolver, by reference
    r_cache,       \* _deck_word_cache_store: the (key, DeckWord reference) items
    r_calls        \* the _process_word calls made: key, reference and value returned

r_vars == <<r_use_cache, r_lists, r_objs, r_cache, r_calls>>

VARIABLES
    c_output,      \* parse: the local output, the lines the tokenizer returned
    c_heap,        \* the WordInfo objects made so far in one parse call, by reference
    c_list,        \* parse: the local word_infos, a list of references
    c_pc,          \* parse: 0 before the tokenizer ran, then the number of the next stage
    c_log,         \* the combination passes parse has called, in order
    c_call         \* the last pass called: its argument before and after, the heap before

c_vars == <<c_output, c_heap, c_list, c_pc, c_log, c_call>>

VARIABLES
    n_text,        \* parse: the text argument
    n_clean,       \* parse: text after _preprocess_text
    n_words,       \* parse: word_infos after the passes, each a unit (its
                   \* position in the list, standing for the object) and a text
    n_sentences,   \* what _split_into_sentences returned
    n_pc           \* parse: "start" | "tokenized" | "done"

n_vars == <<n_text, n_clean, n_words, n_sentences, n_pc>>

VARIABLES
    k_lock,        \* _PROCESS_TEXT_LOCK: the thread holding it, 0 when free
    k_pc,          \* process_text: where each thread is in it
    k_input,       \* process_text: each thread's input_text
    k_freed        \* the native results freed so far, by the thread that freed them

k_vars == <<k_lock, k_pc, k_input, k_freed>>

VARIABLES
    m_env,         \* the dictionary loaded and the iteration order of the form sets
    m_cache,       \* _deck_word_cache_store, shared by the threads
    m_pc,          \* _process_word: where each thread is in it
    m_word,        \* _process_word: each thread's word_info
    m_result,      \* what each thread's last call returned
    m_replaced,    \* the (old, new) values of every set on a key already stored
    m_calls        \* the number of calls made

m_vars == <<m_env, m_cache, m_pc, m_word, m_result, m_replaced, m_calls>>

vars == <<d_vars, s_vars, l_vars, r_vars, c_vars, n_vars, k_vars, m_vars>>

(***************************************************************************)
(* Python str operations on texts                                          *)
(***************************************************************************)

\* s[:n] for 0 <= n
Take(s, n) == IF n >= Len(s) THEN s ELSE SubSeq(s, 1, n)

\* s[n:] for 0 <= n
Drop(s, n) == IF n >= Len(s) THEN <<>> ELSE SubSeq(s, n + 1, Len(s))

\* s.endswith(suf)
EndsWith(s, suf) ==
    /\ Len(suf) <= Len(s)
    /\ Drop(s, Len(s) - Len(suf)) = suf

\* s.startswith(pre)
StartsWith(s, pre) ==
    /\ Len(pre) <= Len(s)
    /\ Take(s, Len(pre)) = pre

\* s.find(sub, start): the lowest index >= start (0-based) where sub occurs, or -1
Find(s, sub, start) ==
    LET hits == {i \in start..(Len(s) - Len(sub)) : SubSeq(s, i + 1, i + Len(sub)) = sub}
    IN  IF hits = {} THEN -1 ELSE CHOOSE i \in hits : \A j \in hits : i <= j

\* sub in s
Contains(s, sub) == Find(s, sub, 0) >= 0

\* s.replace(old, new) for non-empty old: every non-overlapping occurrence, left to right
RECURSIVE ReplaceFrom(_, _, _)
ReplaceFrom(s, old, new) ==
    IF Len(s) < Len(old) THEN s
    ELSE IF Take(s, Len(old)) = old
         THEN new \o ReplaceFrom(Drop(s, Len(old)), old, new)
         ELSE <<Head(s)>> \o ReplaceFrom(Tail(s), old, new)

\* s.replace("", new): new before every character and at the end
RECURSIVE Intersperse(_, _)
Intersperse(s, new) ==
    IF s = <<>> THEN new ELSE new \o <<Head(s)>> \o Intersperse(Tail(s), new)

\* s.replace(old, new)
Replace(s, old, new) ==
    IF old = <<>> THEN Intersperse(s, new) ELSE ReplaceFrom(s, old, new)

(***************************************************************************)
(* Deconjugation rules and forms                                           *)
(***************************************************************************)

\* Python None for an Optional[str] tag
NoTag == "None"

\* DeconjugationRule: dec_tag / con_tag are <<>> when the rule carries none
Rule(type, detail, dec_end, con_end, context_rule, dec_tag, con_tag) ==
    [type |-> type, detail |-> detail, dec_end |-> dec_end, con_end |-> con_end,
     context_rule |-> context_rule, dec_tag |-> dec_tag, con_tag |-> con_tag]

\* DeconjugationVirtualRule
VirtualRule(dec_end, con_end, dec_tag, con_tag, detail) ==
    [dec_end |-> dec_end, con_end |-> con_end, dec_tag |-> dec_tag,
     con_tag |-> con_tag, detail |-> detail]

\* DeconjugationForm; equality is over all five fields
Form(text, original_text, tags, seen_text, process) ==
    [text |-> text, original_text |-> original_text, tags |-> tags,
     seen_text |-> seen_text, process |-> process]

\* xs[i] if i < len(xs) else xs[0]     (i is 0-based)
AtOrFirst(xs, i) == IF i < Len(xs) THEN xs[i + 1] ELSE xs[1]

\* _cache_virtual_rules: the virtual rules of a rule with several endings
CacheVirtualRules(rule) ==
    IF Len(rule.dec_end) <= 1 THEN <<>>
    ELSE [k \in 1..Len(rule.dec_end) |->
            VirtualRule(AtOrFirst(rule.dec_end, k - 1),
                        AtOrFirst(rule.con_end, k - 1),
                        IF rule.dec_tag # <<>> THEN AtOrFirst(rule.dec_tag, k - 1) ELSE NoTag,
                        IF rule.con_tag # <<>> THEN AtOrFirst(rule.con_tag, k - 1) ELSE NoTag,
                        rule.detail)]

\* _create_initial_form
CreateInitialForm(text) == Form(text, text, <<>>, {}, <<>>)

\* Bounds of _should_skip_form
LengthSlack == 10
DepthSlack == 6

\* _should_skip_form with >= for the tag depth
ShouldSkipFormOffByOne(form) ==
    \/ form.text = <<>>
    \/ Len(form.text) > Len(form.original_text) + LengthSlack
    \/ Len(form.tags) >= Len(form.original_text) + DepthSlack

\* _should_skip_form
ShouldSkipForm(form) ==
    \/ form.text = <<>>
    \/ Len(form.text) > Len(form.original_text) + LengthSlack
    \/ Len(form.tags) > Len(form.original_text) + DepthSlack

\* _create_new_form without `if not new_seen_text: new_seen_text.add(form.text)`
CreateNewFormNoSeed(form, new_text, con_tag, dec_tag, detail) ==
    LET seeded   == IF form.tags = <<>> /\ con_tag # NoTag
                    THEN Append(form.tags, con_tag) ELSE form.tags
        new_tags == IF dec_tag # NoTag THEN Append(seeded, dec_tag) ELSE seeded
    IN  Form(new_text, form.original_text, new_tags, form.seen_text \cup {new_text},
             Append(form.process, detail))

\* _create_new_form
CreateNewForm(form, new_text, con_tag, dec_tag, detail) ==
    LET seeded   == IF form.tags = <<>> /\ con_tag # NoTag
                    THEN Append(form.tags, con_tag) ELSE form.tags
        new_tags == IF dec_tag # NoTag THEN Append(seeded, dec_tag) ELSE seeded
        seen0    == IF form.seen_text = {} THEN {form.text} ELSE form.seen_text
    IN  Form(new_text, form.original_text, new_tags, seen0 \cup {new_text},
             Append(form.process, detail))

\* _std_rule_deconjugate_inner without `if new_text == form.original_text`
StdRuleDeconjugateInnerNoGuard(form, rule) ==
    IF ~EndsWith(form.text, rule.con_end) THEN {}
    ELSE IF form.tags # <<>> /\ form.tags[Len(form.tags)] # rule.con_tag THEN {}
    ELSE LET prefix_len == Len(form.text) - Len(rule.con_end)
             new_text   == Take(form.text, prefix_len) \o rule.dec_end
         IN  {CreateNewForm(form, new_text, rule.con_tag, rule.dec_tag, rule.detail)}

\* _std_rule_deconjugate_inner: the set holding the hit, or {} for None
StdRuleDeconjugateInner(form, rule) ==
    IF ~EndsWith(form.text, rule.con_end) THEN {}
    ELSE IF form.tags # <<>> /\ form.tags[Len(form.tags)] # rule.con_tag THEN {}
    ELSE LET prefix_len == Len(form.text) - Len(rule.con_end)
             new_text   == Take(form.text, prefix_len) \o rule.dec_end
         IN  IF new_text = form.original_text THEN {}
             ELSE {CreateNewForm(form, new_text, rule.con_tag, rule.dec_tag, rule.detail)}

\* _std_rule_deconjugate
StdRuleDeconjugate(form, rule) ==
    IF rule.detail = "" /\ form.tags = <<>> THEN {}
    ELSE IF Len(rule.dec_end) = 1
    THEN StdRuleDeconjugateInner(form,
            VirtualRule(rule.dec_end[1], rule.con_end[1],
                        IF rule.dec_tag # <<>> THEN rule.dec_tag[1] ELSE NoTag,
                        IF rule.con_tag # <<>> THEN rule.con_tag[1] ELSE NoTag,
                        rule.detail))
    ELSE LET cached == CacheVirtualRules(rule)
         IN  UNION {StdRuleDeconjugateInner(form, cached[k]) : k \in 1..Len(cached)}

\* _create_substitution_form without new_process.append(detail)
CreateSubstitutionFormNoDetail(form, new_text, detail) ==
    LET seen0 == IF form.seen_text = {} THEN {form.text} ELSE form.seen_text
    IN  Form(new_text, form.original_text, form.tags, seen0 \cup {new_text},
             form.process)

\* _create_substitution_form
CreateSubstitutionForm(form, new_text, detail) ==
    LET seen0 == IF form.seen_text = {} THEN {form.text} ELSE form.seen_text
    IN  Form(new_text, form.original_text, form.tags, seen0 \cup {new_text},
             Append(form.process, detail))

\* _substitution_inner
SubstitutionInner(form, con_end, dec_end, detail) ==
    IF ~Contains(form.text, con_end) THEN {}
    ELSE {CreateSubstitutionForm(form, Replace(form.text, con_end, dec_end), detail)}

\* _substitution_deconjugate
SubstitutionDeconjugate(form, rule) ==
    IF form.process # <<>> \/ form.text = <<>> THEN {}
    ELSE IF Len(rule.dec_end) = 1
    THEN SubstitutionInner(form, rule.con_end[1], rule.dec_end[1], rule.detail)
    ELSE UNION {SubstitutionInner(form, AtOrFirst(rule.con_end, k - 1),
                                  AtOrFirst(rule.dec_end, k - 1), rule.detail)
                : k \in 1..Len(rule.dec_end)}

\* _rewrite_rule_deconjugate
RewriteRuleDeconjugate(form, rule) ==
    IF form.text = rule.con_end[1] THEN StdRuleDeconjugate(form, rule) ELSE {}

\* _only_final_rule_deconjugate
OnlyFinalRuleDeconjugate(form, rule) ==
    IF form.tags = <<>> THEN StdRuleDeconjugate(form, rule) ELSE {}

\* _never_final_rule_deconjugate
NeverFinalRuleDeconjugate(form, rule) ==
    IF form.tags # <<>> THEN StdRuleDeconjugate(form, rule) ELSE {}

\* _v1_inf_trap_check
V1InfTrapCheck(form) == form.tags # <<"stem-ren">>

\* The str literal _sa_special_check compares one character with: two code
\* points (U+00E3, U+2022), so no single character of a text equals it
SaLiteral == "U+00E3 U+2022"

\* _sa_special_check
SaSpecialCheck(form, rule) ==
    IF form.text = <<>> THEN FALSE
    ELSE IF ~EndsWith(form.text, rule.con_end[1]) THEN FALSE
    ELSE LET prefix_len == Len(form.text) - Len(rule.con_end[1])
         IN  prefix_len <= 0 \/ form.text[prefix_len] # SaLiteral

\* _context_rule_deconjugate
ContextRuleDeconjugate(form, rule) ==
    IF rule.context_rule = "v1inftrap" /\ ~V1InfTrapCheck(form) THEN {}
    ELSE IF rule.context_rule = "saspecial" /\ ~SaSpecialCheck(form, rule) THEN {}
    ELSE StdRuleDeconjugate(form, rule)

\* _apply_rule: dispatch on the rule type; {} for None
ApplyRule(form, rule) ==
    CASE rule.type = "stdrule"        -> StdRuleDeconjugate(form, rule)
      [] rule.type = "rewriterule"    -> RewriteRuleDeconjugate(form, rule)
      [] rule.type = "onlyfinalrule"  -> OnlyFinalRuleDeconjugate(form, rule)
      [] rule.type = "neverfinalrule" -> NeverFinalRuleDeconjugate(form, rule)
      [] rule.type = "contextrule"    -> ContextRuleDeconjugate(form, rule)
      [] rule.type = "substitution"   -> SubstitutionDeconjugate(form, rule)
      [] OTHER                        -> {}

\* Every form one rule application away from form under the table rs
ApplyAllRules(form, rs) == UNION {ApplyRule(form, rs[k]) : k \in 1..Len(rs)}

\* the next frontier when every frontier form is expanded
NewNovelExpandsAll(proc, nov, rs) ==
    {f \in UNION {ApplyAllRules(form, rs) : form \in nov} :
        f \notin proc /\ f \notin nov}

\* deconjugate, one iteration of `while novel`: the next frontier
NewNovel(proc, nov, rs) ==
    {f \in UNION {ApplyAllRules(form, rs) : form \in {g \in nov : ~ShouldSkipForm(g)}} :
        f \notin proc /\ f \notin nov}


(***************************************************************************)
(* Rule tables and input texts the deconjugator is run on                  *)
(***************************************************************************)

\* A table in the shape of resources/deconjugator.json: every standard-family
\* rule carries a tag pair; text-preserving rules only relabel the tag
TaggedRules == <<
    Rule("stdrule", "past", << <<>> >>, << <<"ta">> >>, "",
         <<"stem-ren">>, <<"uninflectable">>),
    Rule("contextrule", "(infinitive)", << <<"ru">> >>, << <<>> >>, "v1inftrap",
         <<"v1">>, <<"stem-ren">>),
    Rule("stdrule", "negative", << <<"su">>, <<"ru">> >>, << <<"sa">>, <<"ra">> >>, "",
         <<"v5s", "v5r">>, <<"stem-a">>),
    Rule("stdrule", "", << <<>> >>, << <<>> >>, "",
         <<"stem-a">>, <<"stem-ren">>),
    Rule("contextrule", "causative", << <<"su">> >>, << <<"te">> >>, "saspecial",
         <<"v5s">>, <<"stem-ren">>),
    Rule("onlyfinalrule", "imperative", << <<"ru">> >>, << <<"ro">> >>, "",
         <<"v1">>, <<"uninflectable">>),
    Rule("neverfinalrule", "polite", << <<"ru", "ru">> >>, << <<>> >>, "",
         <<"v1">>, <<"v1">>),
    Rule("rewriterule", "rewrite", << <<"su", "ru">> >>, << <<"sa", "ta">> >>, "",
         <<"vs">>, <<"stem-ren">>),
    Rule("stdrule", "stem", << <<"ru">> >>, << <<>> >>, "",
         <<"stem-ren">>, <<>>),
    Rule("substitution", "slang", << <<"ta">> >>, << <<"te">> >>, "", <<>>, <<>>)
>>

\* A table whose rules carry no tag pair
TaglessRules == <<
    Rule("stdrule", "a", << <<"be">> >>, << <<"ta">> >>, "", <<>>, <<>>),
    Rule("stdrule", "b", << <<"ru">> >>, << <<"be">> >>, "", <<>>, <<>>),
    Rule("stdrule", "c", << <<"be">> >>, << <<"ru">> >>, "", <<>>, <<>>),
    Rule("substitution", "same", << <<"sa">>, <<"te">> >>, << <<"sa">>, <<>> >>, "", <<>>, <<>>)
>>

\* A table mixing the two
MixedRules == <<
    Rule("stdrule", "keep", << <<"ru">> >>, << <<"ru">> >>, "",
         <<"v1">>, <<"v1">>),
    Rule("onlyfinalrule", "first", << <<"ru">> >>, << <<"ta">> >>, "",
         <<"v1">>, <<"past">>),
    Rule("neverfinalrule", "later", << <<"be", "ru">> >>, << <<"ru">> >>, "",
         <<"v5r">>, <<"v1">>),
    Rule("substitution", "swap", << <<"ru">> >>, << <<"sa">> >>, "", <<>>, <<>>),
    Rule("unknown", "ignored", << <<"ru">> >>, << <<"ta">> >>, "", <<>>, <<>>)
>>

RuleTables == {TaggedRules, TaglessRules, MixedRules}

\* Memo limits of deconjugate
MaxCachedTextLen == 20
MaxCachedForms == 55
MaxCacheEntries == 250000

\* The texts deconjugate is called with: short ones, one of the longest length
\* the memo accepts and one a character longer
Texts == {
    <<>>,
    <<"ta">>, <<"ru">>, <<"sa">>,
    <<"be", "ta">>, <<"sa", "te">>, <<"be", "ro">>, <<"sa", "ta">>, <<"ru", "ta">>,
    <<"ta", "be", "ta">>, <<"ha", "na", "sa">>, <<"sa", "te", "ta">>,
    [i \in 1..MaxCachedTextLen |->
        IF i = MaxCachedTextLen THEN "ta" ELSE IF i = MaxCachedTextLen - 1 THEN "sa" ELSE "ha"],
    [i \in 1..(MaxCachedTextLen + 1) |-> IF i = MaxCachedTextLen + 1 THEN "ta" ELSE "ha"]
}

\* The number of deconjugate calls one behaviour makes
MaxCalls == 2

(***************************************************************************)
(* deconjugate as a state machine: one step per iteration of `while novel` *)
(***************************************************************************)

\* A derivation that repeats: a frontier form with the text and tags of one of
\* its own transformed ancestors.  Rule application reads only text, tags,
\* original_text and whether process is empty, so such a form is expanded the
\* way its ancestor was, without end.
RECURSIVE Derives(_, _, _, _)
Derives(g, f, pool, rs) ==
    \/ f \in ApplyAllRules(g, rs)
    \/ \E h \in pool :
          /\ Len(h.process) = Len(g.process) + 1
          /\ Len(h.process) < Len(f.process)
          /\ h \in ApplyAllRules(g, rs)
          /\ Derives(h, f, pool, rs)

Repeats(f) ==
    \E g \in processed :
        /\ g.process # <<>>
        /\ g.text = f.text
        /\ g.tags = f.tags
        /\ ~ShouldSkipForm(g)
        /\ Len(g.process) < Len(f.process)
        /\ Derives(g, f, processed, rules)

Diverges == \E f \in novel : Repeats(f)

\* The other components, not in use
ScoreIdle == s_word = <<>> /\ s_scores = <<>>
LookupIdle == l_dict = <<>> /\ l_word = <<>> /\ l_order = 0 /\ l_out = <<>>
ResolveIdle ==
    /\ r_use_cache = FALSE /\ r_lists = <<>> /\ r_objs = <<>>
    /\ r_cache = {} /\ r_calls = <<>>
SentencesIdle ==
    /\ n_text = <<>> /\ n_clean = <<>> /\ n_words = <<>> /\ n_sentences = <<>>
    /\ n_pc = "start"

TokenizerIdle ==
    /\ k_lock = 0 /\ k_pc = <<>> /\ k_input = <<>> /\ k_freed = <<>>

MemoIdle ==
    /\ m_env = <<>> /\ m_cache = <<>> /\ m_pc = <<>> /\ m_word = <<>>
    /\ m_result = <<>> /\ m_replaced = {} /\ m_calls = 0

CombineIdle ==
    /\ c_output = <<>>
    /\ c_heap = <<>> /\ c_list = <<>> /\ c_pc = 0 /\ c_log = <<>> /\ c_call = <<>>

\* The set object a call returns is a new one: no memo entry is that object, and
\* the caller has not touched it
FreshObject == [same |-> {}, held |-> <<>>]

DeconjInit ==
    /\ ScoreIdle
    /\ LookupIdle
    /\ ResolveIdle
    /\ CombineIdle
    /\ SentencesIdle
    /\ TokenizerIdle
    /\ MemoIdle
    /\ rules \in RuleTables
    /\ d_use_cache \in BOOLEAN
    /\ d_cache = <<>>
    /\ d_text = <<>>
    /\ processed = {}
    /\ novel = {}
    /\ d_pc = "idle"
    /\ d_round = 0
    /\ d_calls = 0
    /\ d_others \in IF d_use_cache THEN {0, MaxCacheEntries - 1} ELSE {0}
    /\ d_caller = FreshObject

\* deconjugate(text) without the return on the empty text
DeconjugateCallSeedsEmpty ==
    /\ d_pc = "idle"
    /\ d_calls < MaxCalls
    /\ \E text \in Texts :
          /\ d_text' = text
          /\ IF d_use_cache /\ text \in DOMAIN d_cache
             THEN /\ processed' = d_cache[text]
                  /\ novel' = {}
                  /\ d_pc' = "done"
             ELSE /\ processed' = {}
                  /\ novel' = {CreateInitialForm(text)}
                  /\ d_pc' = "loop"
    /\ d_round' = 0
    /\ d_calls' = d_calls + 1
    /\ UNCHANGED <<s_vars, l_vars, r_vars, c_vars, n_vars, k_vars, m_vars>>
    /\ d_caller' = FreshObject
    /\ UNCHANGED <<rules, d_use_cache, d_cache, d_others>>

\* deconjugate(text), lines 71-80: memo hit, empty text, or seed the frontier
DeconjugateCall ==
    /\ d_pc = "idle"
    /\ d_calls < MaxCalls
    /\ \E text \in Texts :
          /\ d_text' = text
          /\ IF d_use_cache /\ text \in DOMAIN d_cache
             THEN /\ processed' = d_cache[text]
                  /\ novel' = {}
                  /\ d_pc' = "done"
             ELSE IF text = <<>>
             THEN /\ processed' = {}
                  /\ novel' = {}
                  /\ d_pc' = "done"
             ELSE /\ processed' = {}
                  /\ novel' = {CreateInitialForm(text)}
                  /\ d_pc' = "loop"
    /\ d_round' = 0
    /\ d_calls' = d_calls + 1
    /\ UNCHANGED <<s_vars, l_vars, r_vars, c_vars, n_vars, k_vars, m_vars>>
    /\ d_caller' = FreshObject
    /\ UNCHANGED <<rules, d_use_cache, d_cache, d_others>>

\* deconjugate, lines 82-100: one iteration of `while novel`
DeconjugateRound ==
    /\ d_pc = "loop"
    /\ novel # {}
    /\ ~Diverges
    /\ novel' = NewNovel(processed, novel, rules)
    /\ processed' = processed \cup novel
    /\ d_round' = d_round + 1
    /\ UNCHANGED <<s_vars, l_vars, r_vars, c_vars, n_vars, k_vars, m_vars>>
    /\ UNCHANGED <<d_text, rules, d_pc, d_use_cache, d_cache, d_calls, d_others, d_caller>>

\* Whether line 102 lets the result of this call into the memo
Storable ==
    /\ d_use_cache
    /\ Len(d_text) <= MaxCachedTextLen
    /\ Cardinality(processed) < MaxCachedForms
    /\ Cardinality(DOMAIN d_cache) + d_others < MaxCacheEntries

\* deconjugate, lines 102-105, storing `processed` itself instead of a copy
DeconjugateReturnStoresSame ==
    /\ d_pc = "loop"
    /\ novel = {}
    /\ d_cache' = IF Storable
                  THEN [t \in DOMAIN d_cache \cup {d_text} |->
                            IF t = d_text THEN processed ELSE d_cache[t]]
                  ELSE d_cache
    /\ d_caller' = [same |-> IF Storable THEN {d_text} ELSE {}, held |-> <<>>]
    /\ d_pc' = "done"
    /\ UNCHANGED <<s_vars, l_vars, r_vars, c_vars, n_vars, k_vars, m_vars>>
    /\ UNCHANGED <<d_text, rules, processed, novel, d_round, d_use_cache, d_calls, d_others>>

\* deconjugate, lines 102-105: the loop has ended; memoize a copy and return
DeconjugateReturn ==
    /\ d_pc = "loop"
    /\ novel = {}
    /\ d_cache' = IF Storable
                  THEN [t \in DOMAIN d_cache \cup {d_text} |->
                            IF t = d_text THEN processed ELSE d_cache[t]]
                  ELSE d_cache
    /\ d_caller' = FreshObject
    /\ d_pc' = "done"
    /\ UNCHANGED <<s_vars, l_vars, r_vars, c_vars, n_vars, k_vars, m_vars>>
    /\ UNCHANGED <<d_text, rules, processed, novel, d_round, d_use_cache, d_calls, d_others>>

\* The caller modifies the set it was returned: it empties it or adds a form
\* of its own.  A memo entry that is the same object changes with it.
Modifications == {"clear", "add"}

ModifyReturned ==
    /\ d_pc = "done"
    /\ d_caller.held = <<>>
    /\ \E how \in Modifications :
          \E now \in {IF how = "clear" THEN {}
                      ELSE processed \cup {CreateInitialForm(<<>>)}} :
              /\ d_caller' = [d_caller EXCEPT !.held = <<now>>]
              /\ d_cache' = [t \in DOMAIN d_cache |->
                                IF t \in d_caller.same THEN now ELSE d_cache[t]]
    /\ UNCHANGED <<s_vars, l_vars, r_vars, c_vars, n_vars, k_vars, m_vars>>
    /\ UNCHANGED <<d_text, rules, processed, novel, d_pc, d_round, d_use_cache, d_calls,
                   d_others>>

\* The caller takes the returned set; the deconjugator is ready for the next call
DeconjugateNext ==
    /\ d_pc = "done"
    /\ d_pc' = "idle"
    /\ UNCHANGED <<s_vars, l_vars, r_vars, c_vars, n_vars, k_vars, m_vars>>
    /\ UNCHANGED <<d_text, rules, processed, novel, d_round, d_use_cache, d_cache, d_calls,
                   d_others, d_caller>>

DeconjNext ==
    \/ DeconjugateCall
    \/ DeconjugateRound
    \/ DeconjugateReturn
    \/ ModifyReturned
    \/ DeconjugateNext

SpecDeconj == DeconjInit /\ [][DeconjNext]_vars


(***************************************************************************)
(* Claims about deconjugate (checked under SpecDeconj)                     *)
(***************************************************************************)

\* The forms deconjugate has created so far in the current call
AllForms == processed \cup novel

\* C20: deconjugate on the empty text returns the empty set at once, without
\* an error, and leaves the deconjugation memo as it was, whether or not the
\* memo is enabled; the memo never holds an entry for the empty text.
C20_EmptyTextReturnsEmptySet ==
    [][(d_calls' = d_calls + 1 /\ d_text' = <<>>)
          => /\ d_pc' = "done"
             /\ processed' = {}
             /\ novel' = {}
             /\ d_cache' = d_cache
             /\ <<>> \notin DOMAIN d_cache']_vars

\* A call on the empty text has returned while the memo is enabled and holds
\* the result of an earlier call
C20_Witness ==
    /\ d_pc = "done"
    /\ d_calls = 2
    /\ d_text = <<>>
    /\ processed = {}
    /\ d_use_cache
    /\ DOMAIN d_cache # {}

\* The forms in the sets of the call that rule number k produced from the
\* expanded form g
AppliedBy(g, k) ==
    IF ShouldSkipForm(g) THEN {} ELSE {f \in ApplyRule(g, rules[k]) : f \in AllForms}

C3_SeenTextOfEveryForm ==
    d_pc = "done" =>
        \A f \in processed : {f.original_text, f.text} \subseteq f.seen_text

\* C3 (amended): every form in the returned set other than the untransformed
\* starting form has original_text and its own text in seen_text; the starting
\* form's seen_text is empty.
C3_SeenTextOfDerivedForms ==
    d_pc = "done" =>
        \A f \in processed :
            IF f.process = <<>>
            THEN f.seen_text = {}
            ELSE {f.original_text, f.text} \subseteq f.seen_text

\* C3 witness: a returned set holding the starting form and a form two rule
\* firings away from it
C3_Witness ==
    /\ d_pc = "done"
    /\ CreateInitialForm(d_text) \in processed
    /\ \E f \in processed : Len(f.process) >= 2

\* C4 (as stated): deconjugate terminates for every text and every rule table
\* of the supported kinds, tag-less rules included.  A call that terminates
\* never holds a frontier form that repeats one of its own ancestors (see
\* Repeats): from such a form the loop derives a longer copy of the same chain
\* in every later round.
C4_DeconjugateTerminates == d_pc = "loop" => ~Diverges

\* The details of the substitution rules of the table in use
SubstitutionDetails ==
    {rules[k].detail : k \in {j \in 1..Len(rules) : rules[j].type = "substitution"}}

\* C21: the length of a form's process list is the number of rule firings
\* (standard-family or substitution) on its derivation chain: the frontier of
\* round n holds forms of n details, the starting form is the only form with
\* an empty process list, and every other form of the set is one firing, and
\* one detail, away from a form of the set.
C21_ProcessLengthIsFiringCount ==
    /\ d_pc = "loop" => \A f \in novel : Len(f.process) = d_round
    /\ \A f \in AllForms :
           IF f.process = <<>>
           THEN f = CreateInitialForm(d_text)
           ELSE \E g \in processed :
                   /\ Len(g.process) + 1 = Len(f.process)
                   /\ f \in ApplyAllRules(g, rules)

\* C21 witness: a returned form two firings from the start, one of them a
\* substitution and one a standard-family rule
C21_Witness ==
    /\ d_pc = "done"
    /\ \E f \in processed :
           /\ Len(f.process) = 2
           /\ \E i, j \in 1..2 :
                  f.process[i] \in SubstitutionDetails
                  /\ f.process[j] \notin SubstitutionDetails

\* The details of the only-final rules of the table in use
OnlyFinalDetails ==
    {rules[k].detail : k \in {j \in 1..Len(rules) : rules[j].type = "onlyfinalrule"}}

\* C24: an only-final rule fires only as the first transformation of a
\* derivation: in every returned form the detail of an only-final rule stands
\* only at the first place of the process list, also when a substitution rule
\* was applied to the starting form.
C24_OnlyFinalIsFirstFiring ==
    d_pc = "done" =>
        \A f \in processed : \A i \in 1..Len(f.process) :
            f.process[i] \in OnlyFinalDetails => i = 1

\* The character of g's text immediately before the conjugated ending of rule
\* k is the kana sa
SaPrecedesEnding(g, k) ==
    /\ EndsWith(g.text, rules[k].con_end[1])
    /\ Len(g.text) > Len(rules[k].con_end[1])
    /\ g.text[Len(g.text) - Len(rules[k].con_end[1])] = "sa"

\* C25: a context rule gated by saspecial never fires on a form in which the
\* character immediately before the matched conjugated ending is the kana sa,
\* and a context rule gated by v1inftrap never fires on a form whose tag stack
\* is exactly the single tag stem-ren.
C25_ContextRulesAreGated ==
    \A g \in processed : \A k \in 1..Len(rules) :
        rules[k].type = "contextrule" =>
            /\ (rules[k].context_rule = "saspecial" /\ SaPrecedesEnding(g, k))
                   => AppliedBy(g, k) = {}
            /\ (rules[k].context_rule = "v1inftrap" /\ g.tags = <<"stem-ren">>)
                   => AppliedBy(g, k) = {}

\* C28 (as stated): seen_text is a cycle guard: no rule application yields a
\* form whose new text is already in the seen_text of the form the rule was
\* applied to, and a derived form's seen_text is a superset of its parent's.
C28_SeenTextGuardsCycles ==
    \A g \in processed : \A k \in 1..Len(rules) :
        \A f \in AppliedBy(g, k) :
            /\ f.text \notin g.seen_text
            /\ g.seen_text \subseteq f.seen_text

\* The superset half of C28 alone
SeenTextGrows ==
    \A g \in processed : \A k \in 1..Len(rules) :
        \A f \in AppliedBy(g, k) : g.seen_text \subseteq f.seen_text

\* The number of entries of the deconjugation memo
MemoEntries == Cardinality(DOMAIN d_cache) + d_others

\* The memo as the three limits of line 102 leave it
MemoWithinLimits ==
    /\ \A t \in DOMAIN d_cache :
          /\ Len(t) <= MaxCachedTextLen
          /\ Cardinality(d_cache[t]) < MaxCachedForms
    /\ MemoEntries <= MaxCacheEntries

\* C27: with the memo enabled, after any sequence of deconjugate calls every
\* memo key is a text of at most 20 characters, every stored set has fewer
\* than 55 forms, the memo holds at most 250000 entries, and a caller that
\* modifies the set it was returned leaves every stored set as it was.
C27_MemoIsBoundedAndIsolated ==
    [][/\ MemoWithinLimits'
       /\ (d_caller.held = <<>> /\ d_caller'.held # <<>>) => d_cache' = d_cache]_vars

\* A call whose result was stored in the memo as its entry number 250000, and
\* whose caller has then modified the set it was returned
C27_Witness ==
    /\ d_pc = "done"
    /\ d_use_cache
    /\ d_text \in DOMAIN d_cache
    /\ d_cache[d_text] = processed
    /\ MemoEntries = MaxCacheEntries
    /\ d_caller.held # <<>>
    /\ d_caller.held[1] # processed

\* The text of f is longer than the original text + 10, or its tag stack is
\* deeper than the length of the original text + 6
TooLongOrDeep(f) ==
    \/ Len(f.text) > Len(f.original_text) + 10
    \/ Len(f.tags) > Len(f.original_text) + 6

\* C26: a frontier form that is too long or too deep is kept in the set (the
\* round moves it into processed) and is never expanded: no form of the set is
\* derived from it by a rule application.
C26_PrunedFormsAreKeptNotExpanded ==
    [][/\ \A g \in processed' :
              TooLongOrDeep(g) => ApplyAllRules(g, rules) \cap (processed' \cup novel') = {}
       /\ (d_pc = "loop" /\ d_round' = d_round + 1)
              => \A g \in novel :
                     TooLongOrDeep(g) =>
                         /\ g \in processed'
                         /\ ApplyAllRules(g, rules) \cap novel' = {}]_vars

\* C26 witness: the returned set holds a form that is too deep and on which a
\* rule of the table would fire
C26_Witness ==
    /\ d_pc = "done"
    /\ \E g \in processed : TooLongOrDeep(g) /\ ApplyAllRules(g, rules) # {}

\* The pruning condition as the specification words it
Pruned(f) ==
    \/ f.text = <<>>
    \/ Len(f.text) > Len(f.original_text) + 10
    \/ Len(f.tags) > Len(f.original_text) + 6

\* C5: for non-empty text the returned set is the closure of the starting
\* form under rule application from non-pruned forms (it holds the starting
\* form, every form a rule derives from a non-pruned member, and nothing else),
\* and processed and the frontier are disjoint at the start of every round.
C5_ReturnedSetIsClosure ==
    /\ (d_pc = "done" /\ d_text # <<>>) =>
          /\ CreateInitialForm(d_text) \in processed
          /\ \A g \in processed :
                ~Pruned(g) => ApplyAllRules(g, rules) \subseteq processed
          /\ \A f \in processed \ {CreateInitialForm(d_text)} :
                \E g \in processed : ~Pruned(g) /\ f \in ApplyAllRules(g, rules)
    /\ d_pc = "loop" => processed \cap novel = {}

\* C5 witness: a call on non-empty text has returned a set that holds forms
\* several firings deep and a pruned form
C5_Witness ==
    /\ d_pc = "done"
    /\ d_text # <<>>
    /\ d_round >= 3
    /\ \E f \in processed : Pruned(f) /\ f.text # <<>>


(***************************************************************************)
(* Scoring: JmDictWord.get_priority_score                                  *)
(***************************************************************************)

\* JmDictWord, the fields the resolver reads
JmDictWord(word_id, readings, parts_of_speech, priorities) ==
    [word_id |-> word_id, readings |-> readings,
     parts_of_speech |-> parts_of_speech, priorities |-> priorities]

\* x in xs, for a list xs
InList(x, xs) == \E k \in 1..Len(xs) : xs[k] = x

\* The frequency-rank tags of the model and int(nf[2:]) of each
NfRank == [nf01 |-> 1, nf05 |-> 5, nf15 |-> 15, nf24 |-> 24, nf25 |-> 25, nf48 |-> 48]

\* p.startswith("nf")
IsNf(p) == p \in DOMAIN NfRank

\* int(round(n / 10.0)): Python 3 rounds halves to the even neighbour
RoundTenth(n) ==
    LET q == n \div 10
        m == n % 10
    IN  IF m < 5 THEN q
        ELSE IF m > 5 THEN q + 1
        ELSE IF q % 2 = 0 THEN q ELSE q + 1

Max(a, b) == IF a >= b THEN a ELSE b

\* lines 52-55: next((p for p in priorities if p.startswith("nf")), None) and its bonus
NfBonus(priorities) ==
    LET hits == {k \in 1..Len(priorities) : IsNf(priorities[k])}
    IN  IF hits = {} THEN 0
        ELSE LET first == CHOOSE k \in hits : \A j \in hits : k <= j
             IN  Max(0, 5 - RoundTenth(NfRank[priorities[first]]))

\* the sum of the primary tiers with ichi1 weighted as ichi2 is
PrimaryScoreIchi1AsIchi2(priorities) ==
      (IF InList("jiten", priorities) THEN 100 ELSE 0)
    + (IF InList("ichi1", priorities) THEN 10 ELSE 0)
    + (IF InList("ichi2", priorities) THEN 10 ELSE 0)
    + (IF InList("news1", priorities) THEN 15 ELSE 0)
    + (IF InList("news2", priorities) THEN 10 ELSE 0)
    + (IF InList("gai1", priorities) \/ InList("gai2", priorities) THEN 5 ELSE 0)
    + NfBonus(priorities)

\* lines 30-55: the sum of the primary tiers
PrimaryScore(priorities) ==
      (IF InList("jiten", priorities) THEN 100 ELSE 0)
    + (IF InList("ichi1", priorities) THEN 20 ELSE 0)
    + (IF InList("ichi2", priorities) THEN 10 ELSE 0)
    + (IF InList("news1", priorities) THEN 15 ELSE 0)
    + (IF InList("news2", priorities) THEN 10 ELSE 0)
    + (IF InList("gai1", priorities) \/ InList("gai2", priorities) THEN 5 ELSE 0)
    + NfBonus(priorities)

\* lines 57-62: the fallback tier, used when the primary tiers sum to zero
FallbackScore(priorities) ==
      (IF InList("spec1", priorities) THEN 15 ELSE 0)
    + (IF InList("spec2", priorities) THEN 5 ELSE 0)

\* get_priority_score without the penalty for a graphemic query
GetPriorityScoreNoPenalty(word, is_kana) ==
    IF word.priorities = <<>> THEN 0
    ELSE LET primary == PrimaryScore(word.priorities)
             score   == IF primary = 0 THEN FallbackScore(word.priorities) ELSE primary
         IN  IF InList("uk", word.parts_of_speech) /\ is_kana THEN score + 10 ELSE score

\* get_priority_score
GetPriorityScore(word, is_kana) ==
    IF word.priorities = <<>> THEN 0
    ELSE LET primary == PrimaryScore(word.priorities)
             score   == IF primary = 0 THEN FallbackScore(word.priorities) ELSE primary
         IN  IF InList("uk", word.parts_of_speech)
             THEN (IF is_kana THEN score + 10 ELSE score - 10)
             ELSE score

\* The priority tags an entry of the model may carry
PriorityTags == {"jiten", "ichi1", "ichi2", "news1", "news2", "gai1", "gai2",
                 "spec1", "spec2", "nf01", "nf05", "nf15", "nf24", "nf25", "nf48"}

\* The longest priority list of a scored entry
MaxPriorities == 2

\* Lists of distinct priority tags of at most n tags
RECURSIVE PriorityLists(_)
PriorityLists(n) ==
    IF n = 0 THEN {<<>>}
    ELSE LET shorter == PriorityLists(n - 1)
         IN  shorter \cup
             {Append(x[1], x[2]) :
                 x \in {y \in shorter \X PriorityTags :
                            Len(y[1]) = n - 1 /\ ~InList(y[2], y[1])}}

\* The part-of-speech lists of a scored entry
ScoredPosLists == {<<"n">>, <<"n", "uk">>, <<"uk", "v1">>, <<"adj-i">>}

\* The deconjugator state machine, not in use
DeconjIdle ==
    /\ d_text = <<>> /\ rules = <<>> /\ processed = {} /\ novel = {} /\ d_pc = "off"
    /\ d_round = 0 /\ d_use_cache = FALSE /\ d_cache = <<>> /\ d_calls = 0
    /\ d_others = 0 /\ d_caller = <<>>

ScoreInit ==
    /\ DeconjIdle
    /\ LookupIdle
    /\ ResolveIdle
    /\ CombineIdle
    /\ SentencesIdle
    /\ TokenizerIdle
    /\ MemoIdle
    /\ \E ps \in PriorityLists(MaxPriorities) : \E pos \in ScoredPosLists :
          s_word = JmDictWord(1, << <<"K1">>, <<"ta">> >>, pos, ps)
    /\ s_scores = <<>>

\* One call s_word.get_priority_score(is_kana); the caller keeps the result
GetPriorityScoreCall ==
    /\ s_word # <<>>
    /\ \E is_kana \in BOOLEAN :
          /\ is_kana \notin DOMAIN s_scores
          /\ s_scores' = [b \in DOMAIN s_scores \cup {is_kana} |->
                            IF b = is_kana THEN GetPriorityScore(s_word, is_kana)
                            ELSE s_scores[b]]
    /\ UNCHANGED <<s_word, d_vars, l_vars, r_vars, c_vars, n_vars, k_vars, m_vars>>

ScoreNext == GetPriorityScoreCall

SpecScore == ScoreInit /\ [][ScoreNext]_vars

\* C9 (as stated): an entry tagged "usually written in kana" scores exactly 10
\* points more for a phonetic query than for a graphemic query.
C9_KanaQueryScoresTenMore ==
    (InList("uk", s_word.parts_of_speech) /\ DOMAIN s_scores = BOOLEAN)
        => s_scores[TRUE] = s_scores[FALSE] + 10

\* C9 (amended): an entry tagged "usually written in kana" that has at least
\* one priority tag scores exactly 20 points more for a phonetic query than
\* for a graphemic one (+10 against -10).
C9_KanaQueryScoresTwentyMore ==
    (InList("uk", s_word.parts_of_speech) /\ DOMAIN s_scores = BOOLEAN
        /\ s_word.priorities # <<>>)
        => s_scores[TRUE] = s_scores[FALSE] + 20

\* C22 (as stated): an entry whose only priority tag is ichi1 scores 20 and an
\* entry whose only priority tag is news2 scores 10, whatever the query kind.
C22_Ichi1Scores20News2Scores10 ==
    \A b \in DOMAIN s_scores :
        /\ s_word.priorities = <<"ichi1">> => s_scores[b] = 20
        /\ s_word.priorities = <<"news2">> => s_scores[b] = 10

\* The adjustment of a score for the "usually written in kana" tag
KanaAdjustment(b) ==
    IF ~InList("uk", s_word.parts_of_speech) THEN 0
    ELSE IF b THEN 10 ELSE 0 - 10

\* C22 (amended): an entry whose only priority tag is ichi1 scores 20, and one
\* whose only priority tag is news2 scores 10, plus 10 when the entry is tagged
\* "usually written in kana" and the query is phonetic, minus 10 when it is so
\* tagged and the query is graphemic; the ichi1 entry scores 10 more than the
\* entry with the same parts of speech whose only tag is news2, for the same
\* query kind.
C22_Ichi1OutscoresNews2UnderSameKanaTag ==
    \A b \in DOMAIN s_scores :
        /\ s_word.priorities = <<"ichi1">> =>
               /\ s_scores[b] = 20 + KanaAdjustment(b)
               /\ s_scores[b] =
                      GetPriorityScore([s_word EXCEPT !.priorities = <<"news2">>], b) + 10
        /\ s_word.priorities = <<"news2">> => s_scores[b] = 10 + KanaAdjustment(b)

\* C22 witness: an entry tagged ichi1 alone and "usually written in kana" has
\* been scored 10 for a graphemic query
C22_Witness ==
    /\ s_word.priorities = <<"ichi1">>
    /\ InList("uk", s_word.parts_of_speech)
    /\ DOMAIN s_scores = BOOLEAN
    /\ s_scores[FALSE] = 10

\* C23: an entry tagged "usually written in kana" scores, whatever its priority
\* tags and also without any, what the same entry without that tag scores
\* plus 10 for a phonetic query and minus 10 for a graphemic one.
C23_KanaTagAdjustsEveryEntry ==
    InList("uk", s_word.parts_of_speech) =>
        \A b \in DOMAIN s_scores :
            s_scores[b] =
                GetPriorityScore(
                    [s_word EXCEPT !.parts_of_speech = SelectSeq(@, LAMBDA p : p # "uk")], b)
                + (IF b THEN 10 ELSE 0 - 10)

\* C9 witness: both scores of a "usually kana" entry with priority tags have
\* been computed
C9_Witness ==
    /\ InList("uk", s_word.parts_of_speech)
    /\ s_word.priorities # <<>>
    /\ DOMAIN s_scores = BOOLEAN
    /\ s_scores[TRUE] > 10


(***************************************************************************)
(* Characters and the wanakana primitives the resolver calls               *)
(***************************************************************************)

Hiragana == {"a", "i", "u", "e", "o", "ka", "ki", "ku", "ke", "ko", "ga", "gu",
             "sa", "si", "su", "se", "so", "zi", "ta", "ti", "tu", "te", "to",
             "da", "de", "do", "na", "ni", "no", "ha", "hu", "ho", "ba", "be",
             "ma", "mi", "mo", "ya", "yo", "ra", "ri", "ru", "re", "ro", "wa", "n",
             "xtu", "xya", "xwa"}
Katakana == {"TA", "BE", "RU", "HU", "N", "E", "NA", "XWA"}
Kanji == {"K1", "K2", "K_dare", "K_iti", "K_niti", "K_o", "K_e", "K_mora", "K_zyuu",
          "K_go", "K_ta", "K_naka", "K_i", "K_tyou", "K_taka", "K_ben", "K_kyou",
          "K_kare"}
LongDash == "-"
Letters == {"x"}

\* Katakana to hiragana, character by character
KataToHira == [TA |-> "ta", BE |-> "be", RU |-> "ru", HU |-> "hu", N |-> "n",
               E |-> "e", NA |-> "na", XWA |-> "xwa"]

\* The hiragana a long-vowel mark after a katakana stands for
LongVowelAfter == [TA |-> "a", BE |-> "e", RU |-> "u", HU |-> "u", N |-> "-",
                   E |-> "e", NA |-> "a", XWA |-> "a"]

\* wanakana.to_hiragana on a text without romaji: katakana become hiragana and
\* a long-vowel mark that follows a katakana becomes that kana's vowel
RECURSIVE ToHiraganaFrom(_, _)
ToHiraganaFrom(s, prev) ==
    IF s = <<>> THEN <<>>
    ELSE LET c == Head(s)
             h == IF c \in Katakana THEN KataToHira[c]
                  ELSE IF c = LongDash /\ prev \in Katakana THEN LongVowelAfter[prev]
                  ELSE c
         IN  <<h>> \o ToHiraganaFrom(Tail(s), c)

ToHiragana(s) == ToHiraganaFrom(s, "")

\* wanakana.is_kana: non-empty and only hiragana, katakana or the long-vowel mark
IsKana(s) ==
    s # <<>> /\ \A k \in 1..Len(s) : s[k] \in Hiragana \cup Katakana \cup {LongDash}

\* wanakana.is_katakana
IsKatakana(s) ==
    s # <<>> /\ \A k \in 1..Len(s) : s[k] \in Katakana \cup {LongDash}

\* wanakana.is_japanese: non-empty and only kana, kanji or full-width characters
IsJapanese(s) ==
    s # <<>> /\ \A k \in 1..Len(s) :
        s[k] \in Hiragana \cup Katakana \cup Kanji \cup {LongDash, "W1"}

(***************************************************************************)
(* Parts of speech                                                         *)
(***************************************************************************)

\* to_part_of_speech on the dictionary codes of the model; every other code,
\* "uk" among them, is UNKNOWN
ToPartOfSpeech(p) ==
    CASE p = "n"                         -> "NOUN"
      [] p \in {"v1", "v5s", "v5r", "vs", "vt"} -> "VERB"
      [] p \in {"adj-i", "adj-ix"}       -> "I_ADJECTIVE"
      [] p = "adj-na"                    -> "NA_ADJECTIVE"
      [] p = "adv"                       -> "ADVERB"
      [] p = "prt"                       -> "PARTICLE"
      [] p \in {"aux", "aux-v"}          -> "AUXILIARY"
      [] p = "exp"                       -> "EXPRESSION"
      [] OTHER                           -> "UNKNOWN"

\* strings_to_parts_of_speech
StringsToPartsOfSpeech(ps) == [k \in 1..Len(ps) |-> ToPartOfSpeech(ps[k])]

\* WordInfo
WordInfo(text, pos, s1, s2, s3, normalized_form, dictionary_form, reading) ==
    [text |-> text, part_of_speech |-> pos,
     part_of_speech_section1 |-> s1, part_of_speech_section2 |-> s2,
     part_of_speech_section3 |-> s3, normalized_form |-> normalized_form,
     dictionary_form |-> dictionary_form, reading |-> reading, is_invalid |-> FALSE]

\* DeckWord, as a value
DeckWord(word_id, original_text, reading_index, conjugations, parts_of_speech) ==
    [word_id |-> word_id, original_text |-> original_text,
     reading_index |-> reading_index, occurrences |-> 0,
     conjugations |-> conjugations, parts_of_speech |-> parts_of_speech,
     origin |-> "UNKNOWN"]

(***************************************************************************)
(* Lists, sets and sorting as Python does them                             *)
(***************************************************************************)

\* The elements of a set in one fixed order
RECURSIVE SeqOfSet(_)
SeqOfSet(S) ==
    IF S = {} THEN <<>>
    ELSE LET x == CHOOSE y \in S : TRUE IN <<x>> \o SeqOfSet(S \ {x})

Reverse(xs) == [k \in 1..Len(xs) |-> xs[Len(xs) + 1 - k]]

\* Iterating a Python set: the order depends on the hashes, which differ from
\* process to process; order 1 and order 2 are two orders a process may have
IterOrder(S, order) == IF order = 1 THEN SeqOfSet(S) ELSE Reverse(SeqOfSet(S))

\* sorted(xs, key=...) for the list of keys: the permutation a stable ascending
\* sort applies (position k of the result holds xs[StableOrder(keys)[k]])
StableOrder(keys) ==
    LET n == Len(keys)
        rank(i) == Cardinality({j \in 1..n :
                        keys[j] < keys[i] \/ (keys[j] = keys[i] /\ j < i)}) + 1
    IN  [k \in 1..n |-> CHOOSE i \in 1..n : rank(i) = k]

\* An assignment `name = x` followed by the code F that uses the name: x is
\* evaluated once
With(x, F(_)) == CHOOSE r \in {F(y) : y \in {x}} : TRUE

\* The list xs reordered by a stable ascending sort on keys
SortedBy(xs, keys) ==
    With(StableOrder(keys), LAMBDA perm : [k \in 1..Len(xs) |-> xs[perm[k]]])

\* xs.index(x) (0-based) if x in xs, else -1
IndexOf(xs, x) ==
    LET hits == {k \in 1..Len(xs) : xs[k] = x}
    IN  IF hits = {} THEN -1 ELSE (CHOOSE k \in hits : \A j \in hits : k <= j) - 1

\* The concatenation of a list of lists
RECURSIVE Flatten(_)
Flatten(xss) == IF xss = <<>> THEN <<>> ELSE Head(xss) \o Flatten(Tail(xss))


(***************************************************************************)
(* The dictionary (JmDict.lookup) and the two lookups of the resolver      *)
(***************************************************************************)

\* wanakana.to_hiragana(r, convert_long_vowel_mark=False)
ToHiraganaKeepDash(s) ==
    [k \in 1..Len(s) |-> IF s[k] \in Katakana THEN KataToHira[s[k]] ELSE s[k]]

\* _process_words, lines 693-706: the lookup keys of an entry
LookupKeys(word) ==
    UNION {{ToHiraganaKeepDash(word.readings[k]), ToHiragana(word.readings[k])} \cup
           (IF IsKatakana(word.readings[k]) THEN {word.readings[k]} ELSE {})
           : k \in 1..Len(word.readings)}

\* JmDict.lookup: the entries with the key, in table order
RECURSIVE Lookup(_, _)
Lookup(dict, key) ==
    IF dict = <<>> THEN <<>>
    ELSE IF key \in LookupKeys(Head(dict))
         THEN <<Head(dict)>> \o Lookup(Tail(dict), key)
         ELSE Lookup(Tail(dict), key)

\* Deconjugator.deconjugate as a function: the loop run to its end
RECURSIVE DeconjugateLoop(_, _, _)
DeconjugateLoop(proc, nov, rs) ==
    IF nov = {} THEN proc
    ELSE DeconjugateLoop(proc \cup nov, NewNovel(proc, nov, rs), rs)

\* Parser._deconjugator.deconjugate(text); the parser's deconjugator has the
\* tagged rule table and no memo (USE_CACHE is False)
Deconjugate(text) ==
    IF text = <<>> THEN {} ELSE DeconjugateLoop({}, {CreateInitialForm(text)}, TaggedRules)

\* [x for x in xs if pred]: keep the elements at the positions in keep
RECURSIVE KeepAt(_, _, _)
KeepAt(xs, keep, k) ==
    IF k > Len(xs) THEN <<>>
    ELSE IF k \in keep THEN <<xs[k]>> \o KeepAt(xs, keep, k + 1)
         ELSE KeepAt(xs, keep, k + 1)

\* word_info.part_of_speech in strings_to_parts_of_speech(word.parts_of_speech)
PosMatches(wi, word) == InList(wi.part_of_speech, StringsToPartsOfSpeech(word.parts_of_speech))

\* The sort key of line 144 with reverse=True: the score, negated
ScoreKeys(wi, matches) ==
    [k \in 1..Len(matches) |-> 0 - GetPriorityScore(matches[k][1], IsKana(wi.text))]

\* The choice among matches by score alone: the first of the highest score
BestMatchTupleNoPreference(wi, matches) ==
    IF Len(matches) > 1
    THEN SortedBy(matches, ScoreKeys(wi, matches))[1]
    ELSE matches[1]

\* _deconjugate_verb_or_adjective, lines 142-152: the pair chosen among matches
BestMatchTuple(wi, matches) ==
    IF Len(matches) > 1
    THEN With(SortedBy(matches, ScoreKeys(wi, matches)), LAMBDA sorted_matches :
         With({k \in 1..Len(sorted_matches) :
                  InList(wi.normalized_form, sorted_matches[k][1].readings)},
              LAMBDA preferred :
                  IF ~IsKana(wi.normalized_form) /\ preferred # {}
                  THEN sorted_matches[CHOOSE k \in preferred : \A j \in preferred : k <= j]
                  ELSE sorted_matches[1]))
    ELSE matches[1]

\* lines 134-137: the (word, form) pairs of the candidate forms, in order
Pairs(dict, candidate_forms) ==
    Flatten([k \in 1..Len(candidate_forms) |->
        With(Lookup(dict, candidate_forms[k].text), LAMBDA words :
            [j \in 1..Len(words) |-> <<words[j], candidate_forms[k]>>])])

\* lines 157-171: the result for the pair chosen
DeckWordOfBest(wi, matches, best) ==
    With([k \in 1..Len(best[1].readings) |-> ToHiragana(best[1].readings[k])],
         LAMBDA hiragana_readings :
    With(IndexOf(hiragana_readings, best[2].text), LAMBDA reading_index :
        IF reading_index = -1
        THEN [success |-> FALSE, word |-> <<>>, matches |-> matches, best |-> <<best>>]
        ELSE [success |-> TRUE,
              word |-> <<DeckWord(best[1].word_id, wi.text, reading_index, best[2].process,
                                  StringsToPartsOfSpeech(best[1].parts_of_speech))>>,
              matches |-> matches, best |-> <<best>>]))

\* _deconjugate_verb_or_adjective: (success, word) and the locals matches and
\* best_match_tuple
DeconjugateVerbOrAdjective(wi, dict, order) ==
    With(IterOrder(Deconjugate(ToHiragana(wi.text)), order), LAMBDA unsorted :
    With(SortedBy(unsorted, [k \in 1..Len(unsorted) |-> 0 - Len(unsorted[k].text)]),
         LAMBDA deconjugated_forms :
    With(KeepAt(deconjugated_forms,
                {k \in 1..Len(deconjugated_forms) :
                    Lookup(dict, deconjugated_forms[k].text) # <<>>}, 1),
         LAMBDA found :
    With(ToHiragana(Replace(Replace(wi.dictionary_form, <<"xwa">>, <<"wa">>),
                            <<"XWA">>, <<"wa">>)),
         LAMBDA base_dict_word :
    With(SortedBy(found, [k \in 1..Len(found) |->
             IF found[k].text = base_dict_word THEN 0
             ELSE IF found[k].text = ToHiragana(wi.text) THEN 1 ELSE 2]),
         LAMBDA candidate_forms :
    With(Pairs(dict, candidate_forms), LAMBDA pairs :
    With(KeepAt(pairs, {k \in 1..Len(pairs) : PosMatches(wi, pairs[k][1])}, 1),
         LAMBDA matches :
        IF candidate_forms = <<>>
        THEN [success |-> TRUE, word |-> <<>>, matches |-> <<>>, best |-> <<>>]
        ELSE IF matches = <<>>
        THEN [success |-> FALSE, word |-> <<>>, matches |-> <<>>, best |-> <<>>]
        ELSE With(BestMatchTuple(wi, matches), LAMBDA best :
                 DeckWordOfBest(wi, matches, best)))))))))

\* to_half_width_digits
ToHalfWidthDigits(s) == [k \in 1..Len(s) |-> IF s[k] = "W1" THEN "1" ELSE s[k]]

\* str.isdigit
IsDigit(s) == s # <<>> /\ \A k \in 1..Len(s) : s[k] = "1"

\* is_ascii_or_full_width_letter
IsAsciiOrFullWidthLetter(s) == s # <<>> /\ s[1] \in Letters

\* lines 76-77: the candidates without a later entry of an id already seen
RECURSIVE UniqueById(_, _)
UniqueById(cands, seen_ids) ==
    IF cands = <<>> THEN <<>>
    ELSE IF Head(cands).word_id \in seen_ids
         THEN UniqueById(Tail(cands), seen_ids)
         ELSE <<Head(cands)>> \o UniqueById(Tail(cands), seen_ids \cup {Head(cands).word_id})

\* max taken as the last element of the highest score
MaxByScoreLast(matches, is_kana) ==
    LET best == {k \in 1..Len(matches) :
                    \A j \in 1..Len(matches) :
                        GetPriorityScore(matches[j], is_kana)
                            <= GetPriorityScore(matches[k], is_kana)}
    IN  matches[CHOOSE k \in best : \A j \in best : k >= j]

\* max(matches, key=score): the first element of the highest score
MaxByScore(matches, is_kana) ==
    LET best == {k \in 1..Len(matches) :
                    \A j \in 1..Len(matches) :
                        GetPriorityScore(matches[j], is_kana)
                            <= GetPriorityScore(matches[k], is_kana)}
    IN  matches[CHOOSE k \in best : \A j \in best : k <= j]

\* lines 84-112: the result for the candidates and the matches among them
DeckWordOfCandidates(wi, unique_candidates, matches) ==
    With(IF matches = <<>> THEN unique_candidates[1]
         ELSE IF Len(matches) > 1 THEN MaxByScore(matches, IsKana(wi.text))
         ELSE matches[1],
         LAMBDA best_match :
    With(IndexOf(best_match.readings, wi.text), LAMBDA literal :
    With(IF literal # -1 THEN literal
         ELSE IndexOf([k \in 1..Len(best_match.readings) |->
                          ToHiragana(best_match.readings[k])],
                      ToHiragana(wi.text)),
         LAMBDA reading_index :
        IF reading_index = -1
        THEN [success |-> FALSE, word |-> <<>>, unique |-> unique_candidates,
              matches |-> matches, best |-> <<best_match>>]
        ELSE [success |-> TRUE,
              word |-> <<DeckWord(best_match.word_id, wi.text, reading_index, <<>>,
                                  StringsToPartsOfSpeech(best_match.parts_of_speech))>>,
              unique |-> unique_candidates, matches |-> matches,
              best |-> <<best_match>>])))

\* _deconjugate_word: (success, word) and the locals unique_candidates, matches
\* and best_match
DeconjugateWord(wi, dict) ==
    IF IsDigit(ToHalfWidthDigits(wi.text))
       \/ (Len(wi.text) = 1 /\ IsAsciiOrFullWidthLetter(wi.text))
    THEN [success |-> FALSE, word |-> <<>>, unique |-> <<>>, matches |-> <<>>,
          best |-> <<>>]
    ELSE
    With(Lookup(dict, wi.text) \o
         (IF ~IsJapanese(wi.text) \/ wi.text # ToHiragana(wi.text)
          THEN Lookup(dict, ToHiragana(wi.text)) ELSE <<>>),
         LAMBDA candidates :
    With(UniqueById(candidates, {}), LAMBDA unique_candidates :
    With(KeepAt(unique_candidates,
                {k \in 1..Len(unique_candidates) : PosMatches(wi, unique_candidates[k])}, 1),
         LAMBDA matches :
        IF unique_candidates = <<>>
        THEN [success |-> FALSE, word |-> <<>>, unique |-> <<>>, matches |-> <<>>,
              best |-> <<>>]
        ELSE DeckWordOfCandidates(wi, unique_candidates, matches))))

(***************************************************************************)
(* The lookups run on a dictionary and a word (SpecLookup)                 *)
(***************************************************************************)

\* The priority lists of the two entries read taberu
EntryPriorities == {<<>>, <<"ichi1">>, <<"news2">>, <<"spec1">>, <<"nf15", "ichi2">>}

\* A dictionary: 食べる and 喰べる (both read たべる), the nouns たべ and タベ,
\* the i-adjective さ, the noun ター
Dictionary(p1, p2, pos3) == <<
    JmDictWord(1, << <<"K1", "be", "ru">>, <<"ta", "be", "ru">> >>, <<"v1", "vt">>, p1),
    JmDictWord(2, << <<"K2", "be", "ru">>, <<"ta", "be", "ru">> >>, <<"v1">>, p2),
    JmDictWord(3, << <<"ta", "be">> >>, pos3, <<"news2">>),
    JmDictWord(4, << <<"TA", "BE">> >>, <<"n">>, <<"gai1">>),
    JmDictWord(5, << <<"sa">> >>, <<"adj-i">>, <<"ichi1">>),
    JmDictWord(6, << <<"TA", "-">> >>, <<"n">>, <<"ichi1">>)
>>

Dictionaries ==
    {Dictionary(p1, p2, pos3) :
        p1 \in EntryPriorities, p2 \in EntryPriorities, pos3 \in {<<"n">>, <<"n", "uk">>}}

\* The words looked up
LookupWords == {
    WordInfo(<<"ta", "be", "ta">>, "VERB", "COMMON", "NONE", "NONE",
             <<"K1", "be", "ru">>, <<"K1", "be", "ru">>, <<"TA", "BE", "TA">>),
    WordInfo(<<"K1", "be", "ta">>, "VERB", "COMMON", "NONE", "NONE",
             <<"K1", "be", "ru">>, <<"K1", "be", "ru">>, <<"TA", "BE", "TA">>),
    WordInfo(<<"TA", "BE", "TA">>, "VERB", "COMMON", "NONE", "NONE",
             <<"K2", "be", "ru">>, <<"K2", "be", "ru">>, <<"TA", "BE", "TA">>),
    WordInfo(<<"ta", "be", "ta">>, "VERB", "COMMON", "NONE", "NONE",
             <<"ta", "be", "ru">>, <<"ta", "be", "ru">>, <<"TA", "BE", "TA">>),
    WordInfo(<<"ta", "be">>, "NOUN", "COMMON", "NONE", "NONE",
             <<"ta", "be">>, <<"ta", "be">>, <<"TA", "BE">>),
    WordInfo(<<"TA", "BE">>, "NOUN", "COMMON", "NONE", "NONE",
             <<"TA", "BE">>, <<"TA", "BE">>, <<"TA", "BE">>),
    WordInfo(<<"ta", "be", "ru">>, "NOUN", "COMMON", "NONE", "NONE",
             <<"K2", "be", "ru">>, <<"ta", "be", "ru">>, <<"TA", "BE", "RU">>),
    WordInfo(<<"W1">>, "NUMERAL", "NONE", "NONE", "NONE", <<"1">>, <<"W1">>, <<"W1">>),
    WordInfo(<<"ro">>, "PARTICLE", "NONE", "NONE", "NONE", <<"ro">>, <<"ro">>, <<"ro">>),
    WordInfo(<<"ta", "be", "ta">>, "NOUN", "COMMON", "NONE", "NONE",
             <<"ta", "be", "ta">>, <<"ta", "be", "ta">>, <<"TA", "BE", "TA">>),
    WordInfo(<<"ta", "be">>, "AUXILIARY", "NONE", "NONE", "NONE",
             <<"ta", "be">>, <<"ta", "be">>, <<"TA", "BE">>),
    WordInfo(<<"o", "ta", "be", "-">>, "NOUN", "COMMON", "NONE", "NONE",
             <<"ta", "be">>, <<"ta", "be">>, <<"TA", "BE">>),
    WordInfo(<<"ta", "-", "be">>, "NOUN", "COMMON", "NONE", "NONE",
             <<"ta", "be">>, <<"ta", "be">>, <<"TA", "BE">>),
    WordInfo(<<"ta", "be", "ta", "xtu">>, "VERB", "COMMON", "NONE", "NONE",
             <<"K1", "be", "ru">>, <<"K1", "be", "ru">>, <<"TA", "BE", "TA">>),
    WordInfo(<<"sa", "ta">>, "NOUN", "COMMON", "NONE", "NONE",
             <<"sa", "ta">>, <<"sa", "ta">>, <<"sa", "ta">>),
    WordInfo(<<"ro", "-">>, "PARTICLE", "NONE", "NONE", "NONE",
             <<"ro">>, <<"ro">>, <<"ro">>),
    WordInfo(<<"ro", "-", "-">>, "PARTICLE", "NONE", "NONE", "NONE",
             <<"ro">>, <<"ro">>, <<"ro">>),
    WordInfo(<<"o", "o", "ro", "ro">>, "NOUN", "COMMON", "NONE", "NONE",
             <<"ro">>, <<"o", "o", "ro", "ro">>, <<"o", "o", "ro", "ro">>),
    WordInfo(<<"ta", "be", "ru">>, "VERB", "COMMON", "NONE", "NONE",
             <<"K1", "be", "ru">>, <<"K1", "be", "ru">>, <<"TA", "BE", "RU">>),
    WordInfo(<<"ta", "-">>, "NOUN", "COMMON", "NONE", "NONE",
             <<"ta", "-">>, <<"ta", "-">>, <<"TA", "-">>)
}

LookupInit ==
    /\ DeconjIdle
    /\ ScoreIdle
    /\ ResolveIdle
    /\ CombineIdle
    /\ SentencesIdle
    /\ TokenizerIdle
    /\ MemoIdle
    /\ l_dict \in Dictionaries
    /\ l_word \in LookupWords
    /\ l_order \in {1, 2}
    /\ l_out = <<>>

\* One call Parser._deconjugate_word(l_word)
DirectLookup ==
    /\ l_word # <<>>
    /\ l_out = <<>>
    /\ l_out' = [op |-> "direct", res |-> DeconjugateWord(l_word, l_dict)]
    /\ UNCHANGED <<l_dict, l_word, l_order, d_vars, s_vars, r_vars, c_vars, n_vars, k_vars, m_vars>>

\* One call Parser._deconjugate_verb_or_adjective(l_word)
DeconjugativeLookup ==
    /\ l_word # <<>>
    /\ l_out = <<>>
    /\ l_out' = [op |-> "deconjugative",
                 res |-> DeconjugateVerbOrAdjective(l_word, l_dict, l_order)]
    /\ UNCHANGED <<l_dict, l_word, l_order, d_vars, s_vars, r_vars, c_vars, n_vars, k_vars, m_vars>>

\* A direct lookup has returned after finding candidates
ChoseACandidate ==
    /\ l_out # <<>>
    /\ l_out.op = "direct"
    /\ l_out.res.unique # <<>>

\* The places in the deduplicated candidates of the entries whose POS set
\* contains the guessed POS
PosCandidates ==
    {k \in 1..Len(l_out.res.unique) :
        \E p \in 1..Len(l_out.res.unique[k].parts_of_speech) :
            ToPartOfSpeech(l_out.res.unique[k].parts_of_speech[p]) = l_word.part_of_speech}

\* The score of the candidate at place k for the word looked up
CandidateScore(k) == GetPriorityScore(l_out.res.unique[k], IsKana(l_word.text))

\* The candidates found under the text and, when the text is not its own
\* hiragana, under its hiragana
RawCandidates ==
    Lookup(l_dict, l_word.text) \o
    (IF ~IsJapanese(l_word.text) \/ l_word.text # ToHiragana(l_word.text)
     THEN Lookup(l_dict, ToHiragana(l_word.text)) ELSE <<>>)

\* C16: direct lookup, after deduplicating candidates by entry id, chooses
\* among the candidates whose POS set contains the guessed POS the one with the
\* highest score, the earliest in candidate order winning ties; when no
\* candidate matches the POS it chooses the first candidate of the deduplicated
\* list; and it returns no word when no reading of the chosen entry equals the
\* text literally or in hiragana.
C16_DirectLookupChoice ==
    ChoseACandidate =>
        /\ \A i, j \in 1..Len(l_out.res.unique) :
               i # j => l_out.res.unique[i].word_id # l_out.res.unique[j].word_id
        /\ \A k \in 1..Len(l_out.res.unique) :
               \E c \in 1..Len(RawCandidates) :
                   /\ RawCandidates[c] = l_out.res.unique[k]
                   /\ \A b \in 1..(c - 1) :
                          RawCandidates[b].word_id # l_out.res.unique[k].word_id
        /\ \A c \in 1..Len(RawCandidates) :
               \E k \in 1..Len(l_out.res.unique) :
                   l_out.res.unique[k].word_id = RawCandidates[c].word_id
        /\ \A i, j \in 1..Len(l_out.res.unique) :
               i < j =>
                   \E a, b \in 1..Len(RawCandidates) :
                       /\ a < b
                       /\ RawCandidates[a] = l_out.res.unique[i]
                       /\ RawCandidates[b] = l_out.res.unique[j]
        /\ PosCandidates # {} =>
               \E k \in PosCandidates :
                   /\ l_out.res.best = <<l_out.res.unique[k]>>
                   /\ \A j \in PosCandidates : CandidateScore(j) <= CandidateScore(k)
                   /\ \A j \in PosCandidates :
                          CandidateScore(j) = CandidateScore(k) => k <= j
        /\ PosCandidates = {} => l_out.res.best = <<l_out.res.unique[1]>>
        /\ (\A r \in 1..Len(l_out.res.best[1].readings) :
                /\ l_out.res.best[1].readings[r] # l_word.text
                /\ ToHiragana(l_out.res.best[1].readings[r]) # ToHiragana(l_word.text))
               <=> l_out.res.word = <<>>
        /\ l_out.res.word # <<>> => l_out.res.word[1].word_id = l_out.res.best[1].word_id

\* A direct lookup chose the earlier of two POS-matching candidates of the
\* same, highest score
C16_Witness ==
    /\ ChoseACandidate
    /\ \E k, j \in PosCandidates :
           /\ k < j
           /\ CandidateScore(k) = CandidateScore(j)
           /\ \A i \in PosCandidates : CandidateScore(i) <= CandidateScore(k)
           /\ l_out.res.best = <<l_out.res.unique[k]>>
    /\ l_out.res.word # <<>>

\* The score the resolver gives an entry for the word looked up
ScoreFor(word) == GetPriorityScore(word, IsKana(l_word.text))

\* A deconjugative lookup has returned after choosing a pair
ChoseAPair ==
    /\ l_out # <<>>
    /\ l_out.op = "deconjugative"
    /\ l_out.res.best # <<>>

\* C10 (as stated): the entry chosen by the deconjugative lookup has the
\* maximum score among all POS-matching (form, entry) pairs, the preference for
\* an entry whose readings hold the normalized form choosing only among ties.
C10_ChosenEntryHasMaxScore ==
    ChoseAPair =>
        \A k \in 1..Len(l_out.res.matches) :
            ScoreFor(l_out.res.matches[k][1]) <= ScoreFor(l_out.res.best[1][1])

\* The positions in matches the choice is made among: the pairs whose entry
\* lists the normalized form as a reading, when that form is not purely kana and
\* there is such a pair; every pair otherwise
PreferredPool(wi, matches) ==
    LET holding == {k \in 1..Len(matches) : InList(wi.normalized_form, matches[k][1].readings)}
    IN  IF ~IsKana(wi.normalized_form) /\ holding # {} /\ Len(matches) > 1
        THEN holding ELSE 1..Len(matches)

\* C10 (amended): when the unit's normalized form is not purely kana and some
\* POS-matching pair's entry lists it as a reading, the chosen pair is the
\* highest-scoring of those pairs, whatever the scores of the others; otherwise
\* it is the highest-scoring pair of all; ties go to the earliest pair.
C10_ChosenEntryIsBestPreferred ==
    ChoseAPair =>
        LET matches == l_out.res.matches
            pool    == PreferredPool(l_word, matches)
        IN  \E k \in pool :
                /\ l_out.res.best[1] = matches[k]
                /\ \A j \in pool : ScoreFor(matches[j][1]) <= ScoreFor(matches[k][1])
                /\ \A j \in pool : j < k => ScoreFor(matches[j][1]) < ScoreFor(matches[k][1])

\* C10 witness: the lookup chose an entry that lists the normalized form
\* although another POS-matching entry scores higher
C10_Witness ==
    /\ ChoseAPair
    /\ InList(l_word.normalized_form, l_out.res.best[1][1].readings)
    /\ \E k \in 1..Len(l_out.res.matches) :
          ScoreFor(l_out.res.matches[k][1]) > ScoreFor(l_out.res.best[1][1])


(***************************************************************************)
(* The resolver Parser._process_word and its cache (SpecResolve)           *)
(***************************************************************************)

\* range(3), line 184
MaxAttempts == 3

\* One lookup of an attempt: which lookup, the POS it was made under, and
\* the (success, word) it returned
LookupMade(op, pos, r) == [op |-> op, pos |-> pos, success |-> r.success, word |-> r.word]

\* lines 197-203: the fallback after a failed direct lookup, the unit taken
\* as a verb, an i-adjective and a na-adjective in turn; the lookups made
FallbackAs(cwi, dict, order) ==
    With(DeconjugateVerbOrAdjective([cwi EXCEPT !.part_of_speech = "VERB"],
                                    dict, order), LAMBDA verb :
        IF verb.word # <<>> THEN <<LookupMade("deconjugative", "VERB", verb)>>
        ELSE
    With(DeconjugateVerbOrAdjective([cwi EXCEPT !.part_of_speech = "I_ADJECTIVE"],
                                    dict, order), LAMBDA i_adj :
        IF i_adj.word # <<>>
        THEN <<LookupMade("deconjugative", "VERB", verb),
               LookupMade("deconjugative", "I_ADJECTIVE", i_adj)>>
        ELSE <<LookupMade("deconjugative", "VERB", verb),
               LookupMade("deconjugative", "I_ADJECTIVE", i_adj),
               LookupMade("deconjugative", "NA_ADJECTIVE",
                   DeconjugateVerbOrAdjective([cwi EXCEPT !.part_of_speech = "NA_ADJECTIVE"],
                                              dict, order))>>))

\* An attempt that makes the direct lookup first for every unit
TryAttemptDirectFirst(cwi, dict, order) ==
    With(DeconjugateWord(cwi, dict), LAMBDA r :
        IF ~r.success \/ r.word = <<>>
        THEN <<LookupMade("direct", cwi.part_of_speech, r)>> \o FallbackAs(cwi, dict, order)
        ELSE <<LookupMade("direct", cwi.part_of_speech, r)>>)

\* lines 188-204: one attempt of the ladder on current_word_info: the lookups
\* it makes, in order; processed_word is the word of the last one (<<>> is None)
TryAttempt(cwi, dict, order) ==
    IF cwi.part_of_speech \in {"VERB", "I_ADJECTIVE", "AUXILIARY", "NA_ADJECTIVE"}
       \/ cwi.part_of_speech_section1 = "ADJECTIVAL"
    THEN With(DeconjugateVerbOrAdjective(cwi, dict, order), LAMBDA r :
             IF ~r.success \/ r.word = <<>>
             THEN <<LookupMade("deconjugative", cwi.part_of_speech, r),
                    LookupMade("direct", cwi.part_of_speech, DeconjugateWord(cwi, dict))>>
             ELSE <<LookupMade("deconjugative", cwi.part_of_speech, r)>>)
    ELSE With(DeconjugateWord(cwi, dict), LAMBDA r :
             IF ~r.success \/ r.word = <<>>
             THEN <<LookupMade("direct", cwi.part_of_speech, r)>>
                      \o FallbackAs(cwi, dict, order)
             ELSE <<LookupMade("direct", cwi.part_of_speech, r)>>)

\* A ladder step that strips the leading o before it trims the end
StripStepPrefixFirst(text) ==
    IF StartsWith(text, <<"o">>) THEN <<Drop(text, 1)>>
    ELSE IF Len(text) > 2 /\ (text[Len(text)] \in {"xtu", "-"}
                              \/ text[Len(text)] = text[Len(text) - 1])
    THEN <<Take(text, Len(text) - 1)>>
    ELSE IF Contains(text, <<"-">>) THEN <<Replace(text, <<"-">>, <<>>)>>
    ELSE <<>>

\* lines 209-217: the text of the next attempt, as <<text>>; <<>> is `break`
StripStep(text) ==
    IF Len(text) > 2 /\ (text[Len(text)] \in {"xtu", "-"}
                         \/ text[Len(text)] = text[Len(text) - 1])
    THEN <<Take(text, Len(text) - 1)>>
    ELSE IF StartsWith(text, <<"o">>) THEN <<Drop(text, 1)>>
    ELSE IF Contains(text, <<"-">>) THEN <<Replace(text, <<"-">>, <<>>)>>
    ELSE <<>>

\* lines 184-217: the ladder from attempt number `attempt` (0-based) on: the
\* word returned, the attempts made, the text of the last attempt, and for each
\* attempt made its text and its lookups
RECURSIVE Ladder(_, _, _, _)
Ladder(cwi, attempt, dict, order) ==
    With(TryAttempt(cwi, dict, order), LAMBDA lookups :
    With(lookups[Len(lookups)].word, LAMBDA word :
    With(StripStep(cwi.text), LAMBDA next :
    With(<<[text |-> cwi.text, lookups |-> lookups]>>, LAMBDA round :
        IF word # <<>> \/ attempt + 1 >= MaxAttempts \/ next = <<>>
        THEN [word |-> word, attempts |-> attempt + 1, text |-> cwi.text,
              rounds |-> round]
        ELSE With(Ladder([cwi EXCEPT !.text = next[1]], attempt + 1, dict, order),
                  LAMBDA rest : [rest EXCEPT !.rounds = round \o @])))))

\* One run of the loop of Parser._process_word (lines 181-217) on l_word
LadderCall ==
    /\ l_word # <<>>
    /\ l_out = <<>>
    /\ l_out' = [op |-> "resolve", res |-> Ladder(l_word, 0, l_dict, l_order)]
    /\ UNCHANGED <<l_dict, l_word, l_order, d_vars, s_vars, r_vars, c_vars, n_vars, k_vars, m_vars>>

LookupNext == DirectLookup \/ DeconjugativeLookup \/ LadderCall

SpecLookup == LookupInit /\ [][LookupNext]_vars

\* A run of the loop of _process_word has returned
Resolved == l_out # <<>> /\ l_out.op = "resolve"

\* The unit looked up is one the resolver takes as inflecting
Inflecting ==
    \/ l_word.part_of_speech \in {"VERB", "I_ADJECTIVE", "AUXILIARY", "NA_ADJECTIVE"}
    \/ l_word.part_of_speech_section1 = "ADJECTIVAL"

\* The unit as looked up in a round: its text is the round's, its POS is pos
UnitOf(round, pos) == [l_word EXCEPT !.text = round.text, !.part_of_speech = pos]

\* C11: in every round of a resolve, an inflecting unit (verb, i-adjective,
\* auxiliary, na-adjective, or adjectival sub-tag) gets the deconjugative lookup
\* first and the direct lookup only if that produced no word; every other unit
\* gets the direct lookup first and, only if that produced no word, the
\* deconjugative lookup as a verb, an i-adjective, a na-adjective in that order,
\* stopping at the first that yields a word; the word of the last lookup made
\* is the round's result.
C11_LookupOrder ==
    Resolved =>
        \A k \in 1..Len(l_out.res.rounds) :
            LET round == l_out.res.rounds[k]
                ls    == round.lookups
                n     == Len(ls)
                hypotheses == <<"VERB", "I_ADJECTIVE", "NA_ADJECTIVE">>
            IN  /\ IF Inflecting
                   THEN /\ ls[1].op = "deconjugative"
                        /\ ls[1].word = DeconjugateVerbOrAdjective(
                               UnitOf(round, l_word.part_of_speech), l_dict, l_order).word
                        /\ ls[1].word # <<>> => n = 1
                        /\ ls[1].word = <<>> =>
                              /\ n = 2
                              /\ ls[2].op = "direct"
                              /\ ls[2].word = DeconjugateWord(
                                     UnitOf(round, l_word.part_of_speech), l_dict).word
                   ELSE /\ ls[1].op = "direct"
                        /\ ls[1].word = DeconjugateWord(
                               UnitOf(round, l_word.part_of_speech), l_dict).word
                        /\ ls[1].word # <<>> => n = 1
                        /\ ls[1].word = <<>> =>
                              /\ n \in 2..4
                              /\ \A j \in 2..n :
                                    /\ ls[j].op = "deconjugative"
                                    /\ ls[j].pos = hypotheses[j - 1]
                                    /\ ls[j].word = DeconjugateVerbOrAdjective(
                                           UnitOf(round, hypotheses[j - 1]), l_dict, l_order).word
                                    /\ j < n => ls[j].word = <<>>
                              /\ n < 4 => ls[n].word # <<>>
                /\ k = Len(l_out.res.rounds) => l_out.res.word = ls[n].word

\* C11 witness: a unit that is not inflecting failed the direct lookup and was
\* resolved by a deconjugative lookup under a hypothesis
C11_Witness ==
    /\ Resolved
    /\ ~Inflecting
    /\ l_out.res.word # <<>>
    /\ Len(l_out.res.rounds[1].lookups) >= 2
    /\ l_out.res.rounds[1].lookups[1].word = <<>>

\* The text ends with a small tsu, a long-vowel mark or a repeated character,
\* and is longer than two characters
TrailingTrimApplies(t) ==
    Len(t) > 2 /\ (t[Len(t)] \in {"xtu", "-"} \/ t[Len(t)] = t[Len(t) - 1])

\* C12: a resolve makes at most 3 lookup rounds; every round but the last is
\* unresolved and is followed by a round on the text after exactly the first
\* applicable step (trim one trailing repeated/elongation character, else
\* strip a leading o, else remove every long-vowel mark), which is strictly
\* shorter; the last round resolved, or was the third, or no step applies to
\* its text; the result is the last round's word.
C12_LadderIsBoundedAndOrdered ==
    Resolved =>
        LET rs == l_out.res.rounds
            n  == Len(rs)
        IN  /\ n \in 1..3
            /\ l_out.res.attempts = n
            /\ \A k \in 1..(n - 1) :
                  LET t == rs[k].text
                      u == rs[k + 1].text
                  IN  /\ rs[k].lookups[Len(rs[k].lookups)].word = <<>>
                      /\ Len(u) < Len(t)
                      /\ IF TrailingTrimApplies(t) THEN u = SubSeq(t, 1, Len(t) - 1)
                         ELSE IF t # <<>> /\ t[1] = "o" THEN u = SubSeq(t, 2, Len(t))
                         ELSE /\ \E i \in 1..Len(t) : t[i] = "-"
                              /\ u = SelectSeq(t, LAMBDA ch : ch # "-")
            /\ \/ l_out.res.word # <<>>
               \/ n = 3
               \/ LET t == rs[n].text
                  IN  /\ ~TrailingTrimApplies(t)
                      /\ ~(t # <<>> /\ t[1] = "o")
                      /\ \A i \in 1..Len(t) : t[i] # "-"
            /\ l_out.res.word = rs[n].lookups[Len(rs[n].lookups)].word

\* C12 witness: a resolve that found its word in the third round, after two
\* ladder steps
C12_Witness ==
    /\ Resolved
    /\ Len(l_out.res.rounds) = 3
    /\ l_out.res.word # <<>>

\* line 176
CacheKey(wi) == <<wi.text, wi.part_of_speech, wi.dictionary_form>>

\* _DeckWordCache.get: the reference stored under the key, 0 for None
CacheGet(cache, key) ==
    IF \E e \in cache : e.key = key
    THEN (CHOOSE e \in cache : e.key = key).ref
    ELSE 0

\* _DeckWordCache.set
CacheSet(cache, key, ref) == {e \in cache : e.key # key} \cup {[key |-> key, ref |-> ref]}

\* The value of the DeckWord object at a reference: its fields, with the lists
\* its two list fields refer to
Deref(objs, lists, ref) ==
    [objs[ref] EXCEPT !.conjugations = lists[objs[ref].conjugations],
                      !.parts_of_speech = lists[objs[ref].parts_of_speech]]

\* The words _process_word is called with
ResolveWords == {
    WordInfo(<<"ta", "be", "ta">>, "VERB", "COMMON", "NONE", "NONE",
             <<"K1", "be", "ru">>, <<"K1", "be", "ru">>, <<"TA", "BE", "TA">>),
    WordInfo(<<"ta", "be">>, "NOUN", "COMMON", "NONE", "NONE",
             <<"ta", "be">>, <<"ta", "be">>, <<"TA", "BE">>),
    WordInfo(<<"o", "ta", "be", "-">>, "NOUN", "COMMON", "NONE", "NONE",
             <<"ta", "be">>, <<"ta", "be">>, <<"TA", "BE">>),
    WordInfo(<<"ro">>, "PARTICLE", "NONE", "NONE", "NONE", <<"ro">>, <<"ro">>, <<"ro">>),
    WordInfo(<<"ta", "be", "ta">>, "NOUN", "COMMON", "NONE", "NONE",
             <<"ta", "be", "ta">>, <<"ta", "be", "ta">>, <<"TA", "BE", "TA">>)
}

\* The number of _process_word calls followed
MaxResolves == 2

\* The number of returned results that callers write to
MaxWrites == 1

\* The caller of call c may write to its result
MayWrite(c) ==
    /\ r_calls[c].ref # 0
    /\ \/ r_calls[c].written
       \/ Cardinality({b \in 1..Len(r_calls) : r_calls[b].written}) < MaxWrites

ResolveInit ==
    /\ DeconjIdle
    /\ ScoreIdle
    /\ CombineIdle
    /\ SentencesIdle
    /\ TokenizerIdle
    /\ MemoIdle
    /\ l_dict \in {Dictionary(<<"ichi1">>, <<>>, <<"n">>),
                   Dictionary(<<>>, <<"news2">>, <<"n", "uk">>)}
    /\ l_word = <<>>
    /\ l_order \in {1, 2}
    /\ l_out = <<>>
    /\ r_use_cache \in BOOLEAN
    /\ r_lists = <<>>
    /\ r_objs = <<>>
    /\ r_cache = {}
    /\ r_calls = <<>>

\* The text of the attempt and the POS of the lookup that returned the word of
\* a ladder run
FoundAs(out) ==
    [text |-> out.text,
     pos  |-> out.rounds[Len(out.rounds)].lookups[
                  Len(out.rounds[Len(out.rounds)].lookups)].pos]

\* _process_word without the copy of line 182 and with the key taken at line
\* 220: the ladder shortens the caller's unit, and the entry goes under the
\* key of the unit as the ladder left it
ProcessWordOnTheUnitItself(word_info) ==
    LET cache_key   == CacheKey(word_info)
        cached_word == IF r_use_cache THEN CacheGet(r_cache, cache_key) ELSE 0
        ref         == Len(r_objs) + 1
    IN  /\ Len(r_calls) < MaxResolves
        /\ IF cached_word # 0
           THEN \* line 179: DeckWord(**cached_word.__dict__), a new object whose
                \* fields are the cached object's own field values
                /\ r_objs' = Append(r_objs, r_objs[cached_word])
                /\ r_calls' = Append(r_calls,
                       [key |-> cache_key, ref |-> ref, written |-> FALSE,
                        value |-> Deref(r_objs, r_lists, cached_word),
                        given |-> word_info, unit |-> word_info, found |-> <<>>])
                /\ UNCHANGED <<r_lists, r_cache>>
           ELSE \E out \in {Ladder(word_info, 0, l_dict, l_order)} :
                    IF out.word = <<>>
                    THEN /\ r_calls' = Append(r_calls,
                                [key |-> cache_key, ref |-> 0, written |-> FALSE,
                                 value |-> <<>>,
                                 given |-> word_info, unit |-> [word_info EXCEPT !.text = out.text],
                                 found |-> <<>>])
                         /\ UNCHANGED <<r_objs, r_lists, r_cache>>
                    ELSE /\ r_lists' = r_lists \o <<out.word[1].conjugations,
                                                    out.word[1].parts_of_speech>>
                         /\ r_objs' = Append(r_objs,
                                [out.word[1] EXCEPT
                                    !.conjugations = Len(r_lists) + 1,
                                    !.parts_of_speech = Len(r_lists) + 2])
                         /\ r_cache' = IF r_use_cache
                                       THEN CacheSet(r_cache, CacheKey([word_info EXCEPT !.text = out.text]), ref)
                                       ELSE r_cache
                         /\ r_calls' = Append(r_calls,
                                [key |-> cache_key, ref |-> ref, written |-> FALSE,
                                 value |-> out.word[1],
                                 given |-> word_info, unit |-> [word_info EXCEPT !.text = out.text],
                                 found |-> <<FoundAs(out)>>])
        /\ UNCHANGED <<r_use_cache, d_vars, s_vars, l_vars, c_vars, n_vars, k_vars, m_vars>>

\* One call Parser._process_word(word_info).  Each call is recorded with the
\* unit as it was passed in (given), the caller's unit object after the call
\* (unit; the ladder works on a copy, line 182) and, when the ladder found the
\* word, the text and POS it was found under (found)
ProcessWord(word_info) ==
    LET cache_key   == CacheKey(word_info)
        cached_word == IF r_use_cache THEN CacheGet(r_cache, cache_key) ELSE 0
        ref         == Len(r_objs) + 1
    IN  /\ Len(r_calls) < MaxResolves
        /\ IF cached_word # 0
           THEN \* line 179: DeckWord(**cached_word.__dict__), a new object whose
                \* fields are the cached object's own field values
                /\ r_objs' = Append(r_objs, r_objs[cached_word])
                /\ r_calls' = Append(r_calls,
                       [key |-> cache_key, ref |-> ref, written |-> FALSE,
                        value |-> Deref(r_objs, r_lists, cached_word),
                        given |-> word_info, unit |-> word_info, found |-> <<>>])
                /\ UNCHANGED <<r_lists, r_cache>>
           ELSE \E out \in {Ladder(word_info, 0, l_dict, l_order)} :
                    IF out.word = <<>>
                    THEN /\ r_calls' = Append(r_calls,
                                [key |-> cache_key, ref |-> 0, written |-> FALSE,
                                 value |-> <<>>,
                                 given |-> word_info, unit |-> word_info,
                                 found |-> <<>>])
                         /\ UNCHANGED <<r_objs, r_lists, r_cache>>
                    ELSE /\ r_lists' = r_lists \o <<out.word[1].conjugations,
                                                    out.word[1].parts_of_speech>>
                         /\ r_objs' = Append(r_objs,
                                [out.word[1] EXCEPT
                                    !.conjugations = Len(r_lists) + 1,
                                    !.parts_of_speech = Len(r_lists) + 2])
                         /\ r_cache' = IF r_use_cache
                                       THEN CacheSet(r_cache, cache_key, ref)
                                       ELSE r_cache
                         /\ r_calls' = Append(r_calls,
                                [key |-> cache_key, ref |-> ref, written |-> FALSE,
                                 value |-> out.word[1],
                                 given |-> word_info, unit |-> word_info,
                                 found |-> <<FoundAs(out)>>])
        /\ UNCHANGED <<r_use_cache, d_vars, s_vars, l_vars, c_vars, n_vars, k_vars, m_vars>>

\* The caller of call c writes a field of the DeckWord it was returned
WriteOccurrences(c) ==
    /\ MayWrite(c)
    /\ r_objs[r_calls[c].ref].occurrences = 0
    /\ r_objs' = [r_objs EXCEPT ![r_calls[c].ref].occurrences = @ + 1]
    /\ r_calls' = [r_calls EXCEPT ![c].written = TRUE]
    /\ UNCHANGED <<r_use_cache, r_lists, r_cache, d_vars, s_vars, l_vars, c_vars, n_vars, k_vars, m_vars>>

\* The caller of call c appends to the conjugations list of its DeckWord
AppendConjugation(c) ==
    /\ MayWrite(c)
    /\ ~InList("seen", r_lists[r_objs[r_calls[c].ref].conjugations])
    /\ r_lists' = [r_lists EXCEPT ![r_objs[r_calls[c].ref].conjugations] = Append(@, "seen")]
    /\ r_calls' = [r_calls EXCEPT ![c].written = TRUE]
    /\ UNCHANGED <<r_use_cache, r_objs, r_cache, d_vars, s_vars, l_vars, c_vars, n_vars, k_vars, m_vars>>

\* The caller of call c appends to the parts_of_speech list of its DeckWord
AppendPartOfSpeech(c) ==
    /\ MayWrite(c)
    /\ ~InList("NAME", r_lists[r_objs[r_calls[c].ref].parts_of_speech])
    /\ r_lists' = [r_lists EXCEPT ![r_objs[r_calls[c].ref].parts_of_speech] = Append(@, "NAME")]
    /\ r_calls' = [r_calls EXCEPT ![c].written = TRUE]
    /\ UNCHANGED <<r_use_cache, r_objs, r_cache, d_vars, s_vars, l_vars, c_vars, n_vars, k_vars, m_vars>>

ResolveNext ==
    \/ \E word_info \in ResolveWords : ProcessWord(word_info)
    \/ \E c \in 1..Len(r_calls) : WriteOccurrences(c)
    \/ \E c \in 1..Len(r_calls) : AppendConjugation(c)
    \/ \E c \in 1..Len(r_calls) : AppendPartOfSpeech(c)

SpecResolve == ResolveInit /\ [][ResolveNext]_vars

\* C1: with the cache enabled the results of the calls on one key are
\* value-equal, and a write to one returned result changes neither the cache
\* entry nor another call's result: a result its caller has not written to
\* still has the value it was returned with, results of one key were returned
\* with equal values, and the cache entry of a key has that value.
C1_ResultsEqualAndIndependent ==
    r_use_cache =>
        \A c \in 1..Len(r_calls) :
            r_calls[c].ref # 0 =>
                /\ ~r_calls[c].written =>
                       Deref(r_objs, r_lists, r_calls[c].ref) = r_calls[c].value
                /\ \A b \in 1..Len(r_calls) :
                       r_calls[b].key = r_calls[c].key => r_calls[b].value = r_calls[c].value
                /\ CacheGet(r_cache, r_calls[c].key) # 0
                /\ Deref(r_objs, r_lists, CacheGet(r_cache, r_calls[c].key)) = r_calls[c].value


\* C13: whenever _process_word returns a word, the word's original_text is
\* the text of the unit the call was given, also when the word was found only
\* after the ladder removed characters.
C13_OriginalTextIsSurfaceText ==
    \A c \in 1..Len(r_calls) :
        r_calls[c].ref # 0 => r_calls[c].value.original_text = r_calls[c].key[1]


\* C30: the resolved-word memo gains or replaces an entry only when a resolve
\* call ends with a word, and only under the key (surface text, guessed POS,
\* dictionary form) of the unit as passed in, never under a text the ladder
\* shortened or a POS tried as a hypothesis; an unresolvable unit leaves the
\* memo unchanged, and resolve leaves the unit it was given unchanged.
C30_MemoKeyIsTheUnitAsPassed ==
    [][/\ r_cache' # r_cache =>
              /\ Len(r_calls') = Len(r_calls) + 1
              /\ \E c \in {r_calls'[Len(r_calls')]} :
                     /\ c.ref # 0
                     /\ r_cache' = CacheSet(r_cache, CacheKey(c.given), c.ref)
       /\ Len(r_calls') = Len(r_calls) + 1 =>
              \E c \in {r_calls'[Len(r_calls')]} :
                  /\ c.unit = c.given
                  /\ c.ref = 0 => r_cache' = r_cache]_vars

\* The memo is enabled; one call found its word under a shortened text, one
\* under a POS tried as a hypothesis, both are in the memo under the key of
\* the unit as passed
C30_Witness ==
    /\ r_use_cache
    /\ \E c \in 1..Len(r_calls) :
          /\ r_calls[c].found # <<>>
          /\ r_calls[c].found[1].text # r_calls[c].given.text
          /\ CacheGet(r_cache, CacheKey(r_calls[c].given)) = r_calls[c].ref
    /\ \E c \in 1..Len(r_calls) :
          /\ r_calls[c].found # <<>>
          /\ r_calls[c].found[1].pos # r_calls[c].given.part_of_speech
          /\ CacheGet(r_cache, CacheKey(r_calls[c].given)) = r_calls[c].ref

(***************************************************************************)
(* The combination passes of MorphologicalAnalyser.parse (SpecCombine)     *)
(***************************************************************************)

\* WordInfo.has_part_of_speech_section
Has(w, section) ==
    section \in {w.part_of_speech_section1, w.part_of_speech_section2,
                 w.part_of_speech_section3}

\* WordInfo(): the fields of a new object, with the text, the dictionary form
\* and the part of speech the code sets next
NewWordInfo(text, pos) == WordInfo(text, pos, "NONE", "NONE", "NONE", <<>>, text, text)

\* SPECIAL_CASES_3
SPECIAL_CASES_3 == {
    << <<"na">>, <<"no">>, <<"de">>, "EXPRESSION" >>,
    << <<"de">>, <<"ha">>, <<"na", "i">>, "EXPRESSION" >>,
    << <<"so", "re">>, <<"de">>, <<"mo">>, "CONJUNCTION" >>,
    << <<"na", "ku">>, <<"na", "xtu">>, <<"ta">>, "VERB" >> }

\* SPECIAL_CASES_2
SPECIAL_CASES_2 == {
    << <<"zi", "xya">>, <<"na", "i">>, "EXPRESSION" >>,
    << <<"ni">>, <<"si", "ro">>, "EXPRESSION" >>,
    << <<"da">>, <<"ke", "do">>, "CONJUNCTION" >>,
    << <<"da">>, <<"ga">>, "CONJUNCTION" >>,
    << <<"de">>, <<"sa", "e">>, "EXPRESSION" >>,
    << <<"de">>, <<"su", "ra">>, "EXPRESSION" >>,
    << <<"to">>, <<"i", "u">>, "EXPRESSION" >>,
    << <<"to">>, <<"ka">>, "CONJUNCTION" >>,
    << <<"da">>, <<"ka", "ra">>, "CONJUNCTION" >>,
    << <<"ko", "re">>, <<"ma", "de">>, "EXPRESSION" >>,
    << <<"so", "re">>, <<"mo">>, "CONJUNCTION" >>,
    << <<"so", "re">>, <<"da", "ke">>, "NOUN" >>,
    << <<"ku", "se">>, <<"ni">>, "CONJUNCTION" >>,
    << <<"no">>, <<"de">>, "PARTICLE" >>,
    << <<"K_dare">>, <<"mo">>, "EXPRESSION" >>,
    << <<"K_dare">>, <<"ka">>, "EXPRESSION" >>,
    << <<"su", "gu">>, <<"ni">>, "ADVERB" >>,
    << <<"na", "n">>, <<"ka">>, "PARTICLE" >>,
    << <<"da", "xtu">>, <<"ta">>, "EXPRESSION" >>,
    << <<"da", "xtu">>, <<"ta", "ra">>, "CONJUNCTION" >>,
    << <<"yo", "u">>, <<"ni">>, "EXPRESSION" >>,
    << <<"n">>, <<"de", "su">>, "EXPRESSION" >>,
    << <<"n">>, <<"da">>, "EXPRESSION" >>,
    << <<"de", "su">>, <<"ka">>, "EXPRESSION" >> }

\* HONORIFICS_SUFFIXES
HONORIFICS_SUFFIXES == << <<"sa", "n">>, <<"ti", "xya", "n">>, <<"ku", "n">> >>

\* amount_combinations.COMBINATIONS
COMBINATIONS == { << <<"K_iti">>, <<"tu">> >>, << <<"K_iti">>, <<"K_niti">> >> }

\* The condition on which a pass joins next_word to the word before it:
\* current_word is the word it accumulates (previous_word in the passes that
\* write to their input), prev_word is word_infos[i-1]
ShouldCombine(pass, current_word, next_word, prev_word) ==
    CASE pass = "_combine_prefixes" ->
            /\ current_word.part_of_speech = "PREFIX"
            /\ current_word.normalized_form # <<"K_o">>
      [] pass = "_combine_amounts" ->
            /\ Has(current_word, "AMOUNT") \/ Has(current_word, "NUMERAL")
            /\ <<current_word.text, next_word.text>> \in COMBINATIONS
      [] pass = "_combine_tte" ->
            /\ EndsWith(current_word.text, <<"xtu">>)
            /\ StartsWith(next_word.text, <<"te">>)
      [] pass = "_combine_verb_dependants" ->
            /\ Has(next_word, "DEPENDANT")
            /\ current_word.part_of_speech = "VERB"
      [] pass = "_combine_verb_possible_dependants" ->
            /\ Has(next_word, "POSSIBLE_DEPENDANT")
            /\ current_word.part_of_speech = "VERB"
            /\ next_word.dictionary_form \in
                   {<<"K_e", "ru">>, <<"su", "ru">>, <<"si", "ma", "u">>, <<"o", "ru">>,
                    <<"ki", "ru">>, <<"ko", "na", "su">>, <<"i", "ku">>, <<"K_mora", "u">>,
                    <<"i", "ru">>, <<"na", "i">>}
      [] pass = "_combine_adverbial_particle" ->
            /\ Has(next_word, "ADVERBIAL_PARTICLE")
            /\ next_word.dictionary_form \in {<<"da", "ri">>, <<"ta", "ri">>}
            /\ current_word.part_of_speech = "VERB"
      [] pass = "_combine_conjunctive_particle" ->
            /\ Has(next_word, "CONJUNCTION_PARTICLE")
            /\ next_word.text \in {<<"te">>, <<"de">>, <<"ti", "xya">>, <<"ba">>}
            /\ current_word.part_of_speech \in {"VERB", "I_ADJECTIVE", "AUXILIARY"}
      [] pass = "_combine_auxiliary" ->
            /\ next_word.part_of_speech = "AUXILIARY"
            /\ \/ current_word.part_of_speech \in
                      {"VERB", "I_ADJECTIVE", "NA_ADJECTIVE", "AUXILIARY"}
               \/ Has(current_word, "ADJECTIVAL")
            /\ ~(/\ next_word.dictionary_form = <<"de", "su">>
                 /\ ~(/\ current_word.part_of_speech = "VERB"
                      /\ next_word.text \in {<<"de", "si">>, <<"de", "si", "ta">>}))
            /\ next_word.text \notin
                   {<<"na">>, <<"ni">>, <<"na", "ra">>, <<"da", "ro", "u">>}
            /\ next_word.dictionary_form \notin
                   {<<"ra", "si", "i">>, <<"be", "si">>, <<"yo", "u", "da">>,
                    <<"ya", "ga", "ru">>}
      [] pass = "_combine_auxiliary_verb_stem" ->
            /\ Has(next_word, "AUXILIARY_VERB_STEM")
            /\ next_word.text \notin
                   {<<"yo", "u", "ni">>, <<"yo", "u">>, <<"mi", "ta", "i">>}
            /\ prev_word.part_of_speech \in {"VERB", "I_ADJECTIVE"}
      [] pass = "_combine_suffix" ->
            /\ next_word.part_of_speech = "SUFFIX" \/ Has(next_word, "SUFFIX")
            /\ \/ next_word.dictionary_form \in
                      {<<"xtu", "ko">>, <<"sa">>, <<"ga", "ru">>}
               \/ /\ next_word.dictionary_form = <<"ra">>
                  /\ prev_word.part_of_speech = "PRONOUN"
      [] pass = "_combine_final" ->
            /\ next_word.text = <<"ba">>
            /\ prev_word.part_of_speech = "VERB"

\* A join that keeps the fields of next_word in every pass
MergeIntoNext(pass, current_word, next_word) ==
    [next_word EXCEPT !.text = current_word.text \o next_word.text]

\* The accumulated word after next_word is joined to it
Merge(pass, current_word, next_word) ==
    CASE pass = "_combine_prefixes" ->
            [next_word EXCEPT !.text = current_word.text \o next_word.text]
      [] pass = "_combine_amounts" ->
            [next_word EXCEPT !.text = current_word.text \o next_word.text,
                              !.part_of_speech = "NOUN"]
      [] OTHER -> [current_word EXCEPT !.text = @ \o next_word.text]

\* The loop `for i in range(1, len(word_infos))` of the passes that accumulate
\* into a copy: the new_list it builds, as values, from position i (1-based)
RECURSIVE Accumulate(_, _, _, _)
Accumulate(pass, ws, i, current_word) ==
    IF i > Len(ws) THEN <<current_word>>
    ELSE IF ShouldCombine(pass, current_word, ws[i], ws[i - 1])
         THEN Accumulate(pass, ws, i + 1, Merge(pass, current_word, ws[i]))
         ELSE <<current_word>> \o Accumulate(pass, ws, i + 1, ws[i])

\* The words a pass that looks ahead joins at position i, as <<count, word>>;
\* <<0>> when it joins none
Joined(pass, ws, i) ==
    CASE pass = "_combine_verb_dependants_suru" ->
            IF /\ i + 1 <= Len(ws)
               /\ Has(ws[i], "POSSIBLE_SURU")
               /\ ws[i + 1].dictionary_form = <<"su", "ru">>
               /\ ws[i + 1].text \notin {<<"su", "ru">>, <<"si", "na", "i">>}
            THEN <<2, [ws[i] EXCEPT !.text = @ \o ws[i + 1].text,
                                    !.part_of_speech = "VERB"]>>
            ELSE <<0>>
      [] pass = "_combine_verb_dependants_teiru" ->
            IF /\ i + 2 <= Len(ws)
               /\ ws[i].part_of_speech = "VERB"
               /\ ws[i + 1].dictionary_form = <<"te">>
               /\ ws[i + 2].dictionary_form = <<"i", "ru">>
            THEN <<3, [ws[i] EXCEPT !.text = @ \o ws[i + 1].text \o ws[i + 2].text]>>
            ELSE <<0>>
      [] pass = "_combine_particles" ->
            IF /\ i + 1 <= Len(ws)
               /\ <<ws[i].text, ws[i + 1].text>> \in
                      {<< <<"ni">>, <<"ha">> >>, << <<"to">>, <<"ha">> >>,
                       << <<"de">>, <<"ha">> >>, << <<"no">>, <<"ni">> >>}
            THEN <<2, [ws[i] EXCEPT !.text = ws[i].text \o ws[i + 1].text]>>
            ELSE <<0>>

\* The loop `while i < len(word_infos)` of the passes that look ahead: the
\* new_list it builds, as values, from position i (1-based)
RECURSIVE Scan(_, _, _)
Scan(pass, ws, i) ==
    IF i > Len(ws) THEN <<>>
    ELSE With(Joined(pass, ws, i), LAMBDA j :
             IF j[1] > 0 THEN <<j[2]>> \o Scan(pass, ws, i + j[1])
             ELSE <<ws[i]>> \o Scan(pass, ws, i + 1))

\* _separate_suffix_honorifics, lines 605-624: what one word adds to new_list
Separated(word) ==
    With({k \in 1..Len(HONORIFICS_SUFFIXES) :
             /\ EndsWith(word.text, HONORIFICS_SUFFIXES[k])
             /\ Len(word.text) > Len(HONORIFICS_SUFFIXES[k])
             /\ Has(word, "PERSON_NAME") \/ Has(word, "PROPER_NOUN")},
         LAMBDA hits :
        IF hits = {} THEN <<word>>
        ELSE With(HONORIFICS_SUFFIXES[CHOOSE k \in hits : \A j \in hits : k <= j],
                  LAMBDA honorific :
            <<[word EXCEPT
                  !.text = Take(@, Len(@) - Len(honorific)),
                  !.dictionary_form =
                      IF EndsWith(@, honorific) THEN Take(@, Len(@) - Len(honorific))
                      ELSE @],
              NewWordInfo(honorific, "SUFFIX")>>))


\* What a pass leaves: the heap, the list it returns (out) and the list it was
\* given (inp), both as lists of references
Returned(heap, out, inp) == [heap |-> heap, out |-> out, inp |-> inp]

\* A pass returns a new list of new objects with the values vals
ReturnedNew(heap, vals, inp) ==
    Returned(heap \o vals, [k \in 1..Len(vals) |-> Len(heap) + k], inp)

\* The values of the objects of a list
Values(heap, list) == [k \in 1..Len(list) |-> heap[list[k]]]

\* _process_special_cases, lines 243-275: the single-word cases at w1, as the
\* objects appended to new_list; <<>> when w1 itself is appended
SingleWordCase(w1) ==
    IF w1.text = <<"de", "si", "yo", "u">>
    THEN <<[w1 EXCEPT !.part_of_speech = "EXPRESSION",
                      !.part_of_speech_section1 = "NONE"]>>
    ELSE IF w1.text = <<"da", "si">>
    THEN <<NewWordInfo(<<"da">>, "AUXILIARY"), NewWordInfo(<<"si">>, "CONJUNCTION")>>
    ELSE <<>>

\* lines 265-273: the part of speech written to w1 before it is appended
Retagged(w1) ==
    IF w1.text \in {<<"na">>, <<"ni">>} THEN [w1 EXCEPT !.part_of_speech = "PARTICLE"]
    ELSE IF w1.text = <<"yo", "u">> THEN [w1 EXCEPT !.part_of_speech = "NOUN"]
    ELSE IF w1.text = <<"K_zyuu", "K_go">> THEN [w1 EXCEPT !.part_of_speech = "NUMERAL"]
    ELSE w1

\* lines 196-241: the words joined at position i by the literal tables, as
\* <<count, word>>; <<0>> when none matches
SpecialCase(ws, i) ==
    With({sc \in SPECIAL_CASES_3 :
             /\ i + 2 <= Len(ws)
             /\ ws[i].text = sc[1] /\ ws[i + 1].text = sc[2] /\ ws[i + 2].text = sc[3]},
         LAMBDA three :
    With({sc \in SPECIAL_CASES_2 :
             /\ i + 1 <= Len(ws)
             /\ ws[i].text = sc[1] /\ ws[i + 1].text = sc[2]},
         LAMBDA two :
        IF /\ i + 2 <= Len(ws)
           /\ ws[i].dictionary_form = <<"su", "ru">>
           /\ ws[i + 1].text = <<"te">>
           /\ ws[i + 2].dictionary_form = <<"ku", "da", "sa", "ru">>
        THEN <<3, [ws[i] EXCEPT !.text = @ \o ws[i + 1].text \o ws[i + 2].text]>>
        ELSE IF three # {}
        THEN <<3, [ws[i] EXCEPT !.text = @ \o ws[i + 1].text \o ws[i + 2].text,
                                !.part_of_speech = (CHOOSE sc \in three : TRUE)[4]]>>
        ELSE IF two # {}
        THEN <<2, [ws[i] EXCEPT !.text = @ \o ws[i + 1].text,
                                !.part_of_speech = (CHOOSE sc \in two : TRUE)[3]]>>
        ELSE <<0>>))

\* _process_special_cases: the loop from position i (1-based)
RECURSIVE ProcessSpecialCases(_, _, _, _)
ProcessSpecialCases(heap, word_infos, i, new_list) ==
    IF i > Len(word_infos) THEN Returned(heap, new_list, word_infos)
    ELSE
    With(heap[word_infos[i]], LAMBDA w1 :
    With(SpecialCase(Values(heap, word_infos), i), LAMBDA j :
    With(SingleWordCase(w1), LAMBDA single :
        IF w1.part_of_speech = "CONJUNCTION" /\ w1.text = <<"de">>
        THEN ProcessSpecialCases(
                 [heap EXCEPT ![word_infos[i]].part_of_speech = "PARTICLE"],
                 word_infos, i + 1, Append(new_list, word_infos[i]))
        ELSE IF j[1] > 0
        THEN ProcessSpecialCases(Append(heap, j[2]), word_infos, i + j[1],
                                 Append(new_list, Len(heap) + 1))
        ELSE IF single # <<>>
        THEN ProcessSpecialCases(heap \o single, word_infos, i + 1,
                 new_list \o [k \in 1..Len(single) |-> Len(heap) + k])
        ELSE ProcessSpecialCases([heap EXCEPT ![word_infos[i]] = Retagged(w1)],
                                 word_infos, i + 1, Append(new_list, word_infos[i])))))

\* _combine_conjunctive_particle and _combine_auxiliary: the loop from position
\* i (1-based); new_list holds the objects of word_infos themselves
RECURSIVE GlueToPrevious(_, _, _, _, _)
GlueToPrevious(pass, heap, word_infos, i, new_list) ==
    IF i > Len(word_infos) THEN Returned(heap, new_list, word_infos)
    ELSE
    With(heap[word_infos[i]], LAMBDA current_word :
    With(new_list[Len(new_list)], LAMBDA previous :
        IF ShouldCombine(pass, heap[previous], current_word, heap[previous])
        THEN GlueToPrevious(pass,
                 [heap EXCEPT ![previous].text = @ \o current_word.text],
                 word_infos, i + 1, new_list)
        ELSE GlueToPrevious(pass, heap, word_infos, i + 1,
                            Append(new_list, word_infos[i]))))

\* _filter_misparse, lines 126-136: the part of speech written to word
Misparse(word) ==
    IF word.text \in {<<"na", "n">>, <<"HU", "N">>, <<"hu", "n">>}
    THEN [word EXCEPT !.part_of_speech = "PREFIX"]
    ELSE IF word.text = <<"so", "u">> THEN [word EXCEPT !.part_of_speech = "ADVERB"]
    ELSE IF word.text = <<"o", "i">> THEN [word EXCEPT !.part_of_speech = "INTERJECTION"]
    ELSE IF word.text = <<"tu">> /\ word.part_of_speech = "SUFFIX"
    THEN [word EXCEPT !.part_of_speech = "COUNTER"]
    ELSE word

\* lines 138-147: the word is popped from the list
Popped(word) ==
    \/ word.text \in {<<"so">>, <<"-">>, <<"ru">>, <<"ma">>, <<"hu">>, <<"ti">>,
                      <<"ho">>, <<"su">>, <<"zi">>, <<"na", "sa">>}
    \/ /\ word.part_of_speech = "NOUN"
       /\ \/ Len(word.text) = 1 /\ IsKana(word.text)
          \/ Len(word.text) = 2 /\ IsKana(<<word.text[1]>>) /\ word.text[2] = "-"
          \/ word.text \in {<<"E", "NA">>, <<"e", "na">>}

\* _filter_misparse: the loop from position i (1-based) down; the list given
\* is the list written to and returned
RECURSIVE FilterMisparse(_, _, _)
FilterMisparse(heap, word_infos, i) ==
    IF i < 1 THEN Returned(heap, word_infos, word_infos)
    ELSE With(Misparse(heap[word_infos[i]]), LAMBDA word :
             FilterMisparse([heap EXCEPT ![word_infos[i]] = word],
                            IF Popped(word)
                            THEN Take(word_infos, i - 1) \o Drop(word_infos, i)
                            ELSE word_infos,
                            i - 1))

\* One combination pass called on the list word_infos
RECURSIVE RunPass(_, _, _)
RunPass(pass, heap, word_infos) ==
    With(Values(heap, word_infos), LAMBDA ws :
    IF pass = "_process_special_cases"
    THEN ProcessSpecialCases(heap, word_infos, 1, <<>>)
    ELSE IF pass = "_filter_misparse"
    THEN FilterMisparse(heap, word_infos, Len(word_infos))
    ELSE IF Len(word_infos) < (IF pass = "_combine_verb_dependants_teiru" THEN 3 ELSE 2)
    THEN Returned(heap, word_infos, word_infos)
    ELSE IF pass \in {"_combine_verb_dependants_suru", "_combine_verb_dependants_teiru",
                      "_combine_particles"}
    THEN ReturnedNew(heap, Scan(pass, ws, 1), word_infos)
    ELSE IF pass \in {"_combine_conjunctive_particle", "_combine_auxiliary"}
    THEN GlueToPrevious(pass, heap, word_infos, 2, <<word_infos[1]>>)
    ELSE IF pass = "_separate_suffix_honorifics"
    THEN \* new_list is built, and word_infos is returned (line 626)
         Returned(heap \o Flatten([k \in 1..Len(ws) |-> Separated(ws[k])]),
                  word_infos, word_infos)
    ELSE IF pass = "_combine_verb_dependant"
    THEN With(RunPass("_combine_verb_dependants", heap, word_infos), LAMBDA a :
         With(RunPass("_combine_verb_possible_dependants", a.heap, a.out), LAMBDA b :
         With(RunPass("_combine_verb_dependants_suru", b.heap, b.out), LAMBDA c :
         With(RunPass("_combine_verb_dependants_teiru", c.heap, c.out), LAMBDA d :
             Returned(d.heap, d.out, word_infos)))))
    ELSE ReturnedNew(heap, Accumulate(pass, ws, 2, ws[1]), word_infos))

\* The passes in the order the spec lists them
StageOrderAsListed == <<
    "_process_special_cases", "_combine_prefixes", "_combine_amounts", "_combine_tte",
    "_combine_verb_dependant", "_combine_auxiliary_verb_stem",
    "_combine_adverbial_particle", "_combine_suffix", "_combine_auxiliary",
    "_combine_conjunctive_particle", "_combine_particles", "_combine_final",
    "_separate_suffix_honorifics", "_filter_misparse" >>

\* parse, lines 102-118: the passes in the order parse calls them
StageOrder == <<
    "_process_special_cases", "_combine_prefixes", "_combine_amounts", "_combine_tte",
    "_combine_auxiliary_verb_stem", "_combine_adverbial_particle", "_combine_suffix",
    "_combine_auxiliary", "_combine_verb_dependant", "_combine_conjunctive_particle",
    "_combine_particles", "_combine_final", "_separate_suffix_honorifics",
    "_filter_misparse" >>

\* The WordInfo of a tokenizer line of six fields whose POS field has the
\* four parts pos, section1, section2, NONE
Token(text, pos, section1, section2, dictionary_form) ==
    WordInfo(text, pos, section1, section2, "NONE", dictionary_form, dictionary_form, text)

\* Token lists the tokenizer returns
TokenLists == {
    <<>>,
    << Token(<<"ha">>, "PARTICLE", "BINDING_PARTICLE", "NONE", <<"ha">>) >>,
    << Token(<<"K1", "be">>, "VERB", "COMMON", "NONE", <<"K1", "be", "ru">>),
       Token(<<"te">>, "PARTICLE", "CONJUNCTION_PARTICLE", "NONE", <<"te">>),
       Token(<<"i", "ru">>, "VERB", "POSSIBLE_DEPENDANT", "NONE", <<"i", "ru">>) >>,
    << Token(<<"K_ta", "K_naka", "sa", "n">>, "NOUN", "PROPER_NOUN", "PERSON_NAME",
             <<"K_ta", "K_naka", "sa", "n">>),
       Token(<<"ha">>, "PARTICLE", "BINDING_PARTICLE", "NONE", <<"ha">>) >>,
    << Token(<<"de">>, "CONJUNCTION", "NONE", "NONE", <<"de">>),
       Token(<<"K_i", "ku">>, "VERB", "POSSIBLE_DEPENDANT", "NONE", <<"K_i", "ku">>) >>,
    << Token(<<"K1", "be">>, "VERB", "COMMON", "NONE", <<"K1", "be", "ru">>),
       Token(<<"ta">>, "AUXILIARY", "NONE", "NONE", <<"ta">>) >>,
    << Token(<<"so", "u">>, "NOUN", "COMMON", "NONE", <<"so", "u">>),
       Token(<<"ru">>, "NOUN", "COMMON", "NONE", <<"ru">>),
       Token(<<"tu">>, "SUFFIX", "NONE", "NONE", <<"tu">>) >>,
    << WordInfo(<<"o">>, "PREFIX", "NONE", "NONE", "NONE", <<"K_o">>, <<"o">>, <<"o">>),
       Token(<<"K_tyou">>, "PREFIX", "NONE", "NONE", <<"K_tyou">>),
       Token(<<"K_taka", "i">>, "I_ADJECTIVE", "COMMON", "NONE", <<"K_taka", "i">>),
       Token(<<"de", "su">>, "AUXILIARY", "NONE", "NONE", <<"de", "su">>) >>,
    << Token(<<"K_iti">>, "NOUN", "NUMERAL", "NONE", <<"K_iti">>),
       Token(<<"tu">>, "SUFFIX", "NONE", "NONE", <<"tu">>) >>,
    << Token(<<"K_i", "xtu">>, "VERB", "COMMON", "NONE", <<"K_i", "u">>),
       Token(<<"te">>, "PARTICLE", "CONJUNCTION_PARTICLE", "NONE", <<"te">>),
       Token(<<"ta", "ri">>, "PARTICLE", "ADVERBIAL_PARTICLE", "NONE", <<"ta", "ri">>) >>,
    << Token(<<"da">>, "AUXILIARY", "NONE", "NONE", <<"da">>),
       Token(<<"ke", "do">>, "PARTICLE", "CONJUNCTION_PARTICLE", "NONE", <<"ke", "do">>),
       Token(<<"na">>, "NOUN", "COMMON", "NONE", <<"na">>),
       Token(<<"no">>, "PARTICLE", "NONE", "NONE", <<"no">>),
       Token(<<"de">>, "PARTICLE", "NONE", "NONE", <<"de">>) >>,
    << Token(<<"K_ben", "K_kyou">>, "NOUN", "COMMON", "POSSIBLE_SURU", <<"K_ben", "K_kyou">>),
       Token(<<"si">>, "VERB", "POSSIBLE_DEPENDANT", "NONE", <<"su", "ru">>),
       Token(<<"ta">>, "AUXILIARY", "NONE", "NONE", <<"ta">>) >>,
    << Token(<<"K_kare">>, "PRONOUN", "NONE", "NONE", <<"K_kare">>),
       Token(<<"ra">>, "SUFFIX", "NONE", "NONE", <<"ra">>),
       Token(<<"ni">>, "NOUN", "COMMON", "NONE", <<"ni">>),
       Token(<<"ha">>, "PARTICLE", "BINDING_PARTICLE", "NONE", <<"ha">>) >>,
    << Token(<<"K1", "be", "re">>, "VERB", "COMMON", "NONE", <<"K1", "be", "ru">>),
       Token(<<"ba">>, "PARTICLE", "CONJUNCTION_PARTICLE", "NONE", <<"ba">>) >>,
    << Token(<<"si">>, "VERB", "POSSIBLE_DEPENDANT", "NONE", <<"su", "ru">>),
       Token(<<"na", "sa", "i">>, "VERB", "DEPENDANT", "NONE", <<"na", "sa", "ru">>),
       Token(<<"da", "si">>, "AUXILIARY", "NONE", "NONE", <<"da">>) >>,
    << Token(<<"K_taka">>, "I_ADJECTIVE", "COMMON", "NONE", <<"K_taka", "i">>),
       Token(<<"so", "u">>, "NA_ADJECTIVE", "AUXILIARY_VERB_STEM", "NONE", <<"so", "u", "da">>),
       Token(<<"de", "si", "yo", "u">>, "AUXILIARY", "NONE", "NONE", <<"de", "su">>) >>
}

CombineInit ==
    /\ DeconjIdle
    /\ ScoreIdle
    /\ LookupIdle
    /\ ResolveIdle
    /\ CombineIdle
    /\ SentencesIdle
    /\ TokenizerIdle
    /\ MemoIdle

\* The verbs and the units tagged DEPENDANT of the lists below
Verbs == {
    Token(<<"K1", "be">>, "VERB", "COMMON", "NONE", <<"K1", "be", "ru">>),
    Token(<<"ni">>, "VERB", "COMMON", "NONE", <<"ni", "ru">>),
    Token(<<"si">>, "VERB", "POSSIBLE_DEPENDANT", "NONE", <<"su", "ru">>)
}

Dependants == {
    Token(<<"te">>, "PARTICLE", "CONJUNCTION_PARTICLE", "DEPENDANT", <<"te">>),
    Token(<<"i", "ru">>, "VERB", "DEPENDANT", "NONE", <<"i", "ru">>),
    Token(<<"ta">>, "AUXILIARY", "DEPENDANT", "NONE", <<"ta">>),
    Token(<<"no">>, "NOUN", "DEPENDANT", "NONE", <<"no">>),
    Token(<<"de", "si", "yo", "u">>, "AUXILIARY", "DEPENDANT", "NONE", <<"de", "su">>)
}

\* Token lists of a verb followed by one or two units tagged DEPENDANT
VerbDependantLists ==
    {<<v, d>> : v \in Verbs, d \in Dependants}
        \cup {<<v, d1, d2>> : v \in Verbs, d1 \in Dependants, d2 \in Dependants}

\* The line the tokenizer prints for a unit: six tab-separated fields, the
\* second the six comma-separated POS parts.  A POS part is written as the
\* value to_part_of_speech or to_part_of_speech_section gives it.
SudachiLine(w) ==
    <<w.text,
      <<w.part_of_speech, w.part_of_speech_section1, w.part_of_speech_section2,
        w.part_of_speech_section3, "*", "*">>,
      w.normalized_form, w.dictionary_form, w.reading, w.reading>>

\* A line cut to its first n fields, its POS field to its first m parts
CutLine(line, n, m) == Take([line EXCEPT ![2] = Take(@, m)], n)

\* The output of the tokenizer for a token list: a line per unit, then EOS
Output(tokens) == [k \in 1..Len(tokens) |-> SudachiLine(tokens[k])] \o << <<"EOS">> >>

\* The tokenizer outputs parse is run on: the well-formed ones, and the ones
\* with one line that lacks fields or POS parts
Outputs ==
    {Output(tokens) : tokens \in TokenLists \cup VerbDependantLists}
        \cup UNION {{[Output(tokens) EXCEPT ![k] = CutLine(@, cut[1], cut[2])] :
                        k \in 1..Len(tokens),
                        cut \in {<<5, 6>>, <<1, 6>>, <<6, 3>>, <<6, 0>>}}
                    : tokens \in TokenLists}

\* A WordInfo that reads no line with the three fewer-parts checks
InitFromSudachiLineUnchecked(sudachi_line) ==
    LET field(k) == IF k <= Len(sudachi_line) THEN sudachi_line[k] ELSE <<>>
        pos_parts == IF Len(sudachi_line) >= 2 THEN sudachi_line[2] ELSE <<>>
        part(k)  == IF k <= Len(pos_parts) THEN pos_parts[k] ELSE "NONE"
    IN  <<WordInfo(field(1), IF pos_parts = <<>> THEN "UNKNOWN" ELSE pos_parts[1],
                   part(2), part(3), part(4), field(3), field(4), field(6))>>

\* WordInfo._init_from_sudachi_line: <<>> for is_invalid, else the WordInfo
InitFromSudachiLine(sudachi_line) ==
    IF Len(sudachi_line) < 6 THEN <<>>
    ELSE IF Len(sudachi_line[2]) < 4 THEN <<>>
    ELSE <<WordInfo(sudachi_line[1], sudachi_line[2][1], sudachi_line[2][2],
                    sudachi_line[2][3], sudachi_line[2][4],
                    sudachi_line[3], sudachi_line[4], sudachi_line[6])>>

\* parse, lines 86-100: the tokenizer's output is read into word_infos, the EOS
\* lines and the invalid lines left out; with morphemes_only no pass is run
Tokenize(output, morphemes_only) ==
    /\ c_pc = 0
    /\ c_output' = output
    /\ \E word_infos \in {Flatten([k \in 1..Len(output) |->
                              IF output[k] = <<"EOS">> THEN <<>>
                              ELSE InitFromSudachiLine(output[k])])} :
          /\ c_heap' = word_infos
          /\ c_list' = [k \in 1..Len(word_infos) |-> k]
    /\ c_pc' = IF morphemes_only THEN Len(StageOrder) + 1 ELSE 1
    /\ UNCHANGED <<c_log, c_call, d_vars, s_vars, l_vars, r_vars, n_vars, k_vars, m_vars>>

\* parse, lines 102-118: the next pass is called and word_infos is assigned
\* what it returns
CallPass ==
    /\ c_pc \in 1..Len(StageOrder)
    /\ \E r \in {RunPass(StageOrder[c_pc], c_heap, c_list)} :
          /\ c_heap' = r.heap
          /\ c_list' = r.out
          /\ c_call' = [pass |-> StageOrder[c_pc], before |-> c_list,
                        after |-> r.inp, heap |-> c_heap]
    /\ c_log' = Append(c_log, StageOrder[c_pc])
    /\ c_pc' = c_pc + 1
    /\ UNCHANGED <<c_output, d_vars, s_vars, l_vars, r_vars, n_vars, k_vars, m_vars>>

CombineNext ==
    \/ \E output \in Outputs : \E morphemes_only \in BOOLEAN :
          Tokenize(output, morphemes_only)
    \/ CallPass

SpecCombine == CombineInit /\ [][CombineNext]_vars

\* The units of word_infos, as values
Units == Values(c_heap, c_list)

\* A unit that the honorific separation is to split
NameWithHonorific(w) ==
    /\ Has(w, "PROPER_NOUN") \/ Has(w, "PERSON_NAME")
    /\ \E honorific \in {<<"sa", "n">>, <<"ti", "xya", "n">>, <<"ku", "n">>} :
          EndsWith(w.text, honorific) /\ Len(w.text) > Len(honorific)

\* C6: after the honorific separation stage every proper-noun or person-name
\* unit of its input that ends with さん, ちゃん or くん is replaced in its
\* output by the name without the honorific followed by a SUFFIX unit.
C6_HonorificsAreSeparated ==
    (c_call # <<>> /\ c_call.pass = "_separate_suffix_honorifics") =>
        /\ \A k \in 1..Len(Units) : ~NameWithHonorific(Units[k])
        /\ \A k \in 1..Len(c_call.before) :
              NameWithHonorific(c_call.heap[c_call.before[k]]) =>
                  \E j \in 1..(Len(Units) - 1) :
                      /\ Units[j].text \o Units[j + 1].text
                             = c_call.heap[c_call.before[k]].text
                      /\ Units[j + 1].part_of_speech = "SUFFIX"
                      /\ Units[j + 1].text \in
                             {<<"sa", "n">>, <<"ti", "xya", "n">>, <<"ku", "n">>}

\* The group of the spec's list a pass belongs to
Listed(pass) ==
    CASE pass = "_process_special_cases" -> 1
      [] pass = "_combine_prefixes" -> 2
      [] pass = "_combine_amounts" -> 3
      [] pass = "_combine_tte" -> 4
      [] pass = "_combine_verb_dependant" -> 5
      [] pass = "_separate_suffix_honorifics" -> 7
      [] pass = "_filter_misparse" -> 8
      [] OTHER -> 6

\* C7 (as stated): the passes run in the order of the spec's list, so the
\* verb-dependant absorption has run before any adverbial-particle, suffix or
\* auxiliary pass starts.
C7_StagesRunAsListed ==
    \A i \in 1..Len(c_log) : \A j \in 1..Len(c_log) :
        i < j => Listed(c_log[i]) <= Listed(c_log[j])

\* C7 (amended): the passes run in this order: special cases, prefixes, amounts,
\* tte, auxiliary verb stem, adverbial particle, suffix, auxiliary, verb
\* dependant (its four sub-passes), conjunctive particle, particles, final,
\* honorific separation, misparse filtering; the verb-dependant absorption
\* starts only after the auxiliary-verb-stem, adverbial-particle, suffix and
\* auxiliary passes have run.
C7_StagesRunInCodeOrder ==
    /\ Len(c_log) <= 14
    /\ c_log = SubSeq(<<"_process_special_cases", "_combine_prefixes",
                        "_combine_amounts", "_combine_tte",
                        "_combine_auxiliary_verb_stem", "_combine_adverbial_particle",
                        "_combine_suffix", "_combine_auxiliary",
                        "_combine_verb_dependant", "_combine_conjunctive_particle",
                        "_combine_particles", "_combine_final",
                        "_separate_suffix_honorifics", "_filter_misparse">>,
                      1, Len(c_log))

\* C7 witness: a run on 食べ, て, いる has called every pass, and the
\* verb-dependant absorption joined the three after the auxiliary pass had run
C7_Witness ==
    /\ Len(c_log) = 14
    /\ c_log[8] = "_combine_auxiliary" /\ c_log[9] = "_combine_verb_dependant"
    /\ \E k \in 1..Len(Units) : Units[k].text = <<"K1", "be", "te", "i", "ru">>

\* C8: a combination pass leaves its input unchanged: after the pass the list
\* it was given holds the same objects, and each of them has the fields it had
\* before the call.
C8_PassLeavesInputUnchanged ==
    c_call # <<>> =>
        /\ c_call.after = c_call.before
        /\ \A k \in 1..Len(c_call.before) :
              c_heap[c_call.before[k]] = c_call.heap[c_call.before[k]]


\* parse has run every pass on a tokenizer output that is a VERB line followed
\* by lines that all carry the DEPENDANT sub-tag
RanOnVerbAndDependants ==
    /\ Len(c_log) = 14
    /\ Len(c_output) >= 3
    /\ \A k \in 1..(Len(c_output) - 1) :
          Len(c_output[k]) = 6 /\ Len(c_output[k][2]) = 6
    /\ c_output[1][2][1] = "VERB"
    /\ \A k \in 2..(Len(c_output) - 1) : \E j \in 2..4 : c_output[k][2][j] = "DEPENDANT"

\* The texts of the lines of the tokenizer output, joined in order
JoinedTexts == Flatten([k \in 1..(Len(c_output) - 1) |-> c_output[k][1]])

\* C14 (as stated): when the pipeline has run on a VERB unit followed by one
\* or more units carrying the DEPENDANT sub-tag, its output holds a single unit
\* whose text is their texts joined in order and whose POS is VERB.
C14_VerbAndDependantsAreOneUnit ==
    RanOnVerbAndDependants =>
        Cardinality({k \in 1..Len(Units) :
            Units[k].text = JoinedTexts /\ Units[k].part_of_speech = "VERB"}) = 1


\* The special-casing stage leaves the VERB a VERB and every DEPENDANT unit
\* tagged: it retags a unit whose text is な or に a PARTICLE and よう a NOUN,
\* replaces でしょう by an EXPRESSION without sub-tag and だし by だ and し, and
\* joins the units whose texts make one of its literal cases
SpecialCasingKeepsTags ==
    /\ c_output[1][1] \notin {<<"na">>, <<"ni">>, <<"yo", "u">>}
    /\ \A k \in 1..(Len(c_output) - 1) :
          c_output[k][1] \notin {<<"de", "si", "yo", "u">>, <<"da", "si">>}
    /\ \A sc \in SPECIAL_CASES_2 : c_output[1][1] # sc[1]
    /\ \A sc \in SPECIAL_CASES_3 : c_output[1][1] # sc[1]

\* C14 (amended): when the pipeline has run on a VERB unit followed by one or
\* more units carrying the DEPENDANT sub-tag, and the special-casing stage
\* leaves the verb a VERB and the units tagged (the verb's text is not な, に or
\* よう and does not begin a literal special case, no text is でしょう or だし),
\* its output is the single unit whose text is their texts joined in order and
\* whose POS is VERB.
C14_KeptVerbAndDependantsAreOneUnit ==
    (RanOnVerbAndDependants /\ SpecialCasingKeepsTags) =>
        /\ Len(Units) = 1
        /\ Units[1].text = JoinedTexts
        /\ Units[1].part_of_speech = "VERB"

\* C14 witness: the pipeline has run on 食べ, て, いる, the last two tagged
\* DEPENDANT, and its output is the one unit 食べている
C14_Witness ==
    /\ RanOnVerbAndDependants
    /\ Len(c_output) = 4
    /\ c_output[1][1] = <<"K1", "be">>
    /\ c_output[2][1] = <<"te">>
    /\ c_output[3][1] = <<"i", "ru">>
    /\ Len(Units) = 1
    /\ Units[1].text = <<"K1", "be", "te", "i", "ru">>


\* A line of the tokenizer output with the expected fields: at least six
\* tab-separated fields, at least four comma-separated POS parts
WellFormed(line) == Len(line) >= 6 /\ Len(line[2]) >= 4

\* parse has read the tokenizer output and has called no pass yet
Tokenized == c_pc # 0 /\ c_log = <<>>

\* C19: a tokenizer line without the expected tab-separated fields, or with
\* fewer than four POS parts, is no unit of the list parse builds, and the
\* well-formed lines around it are all read: the units are the well-formed
\* lines, in order, each with the text, POS, sub-tags and forms of its line.
C19_MalformedLinesAreDropped ==
    Tokenized =>
        LET kept == SelectSeq(c_output, LAMBDA line : line # <<"EOS">> /\ WellFormed(line))
        IN  /\ Len(Units) = Len(kept)
            /\ \A k \in 1..Len(kept) :
                  /\ Units[k].text = kept[k][1]
                  /\ Units[k].part_of_speech = kept[k][2][1]
                  /\ Units[k].part_of_speech_section1 = kept[k][2][2]
                  /\ Units[k].part_of_speech_section2 = kept[k][2][3]
                  /\ Units[k].part_of_speech_section3 = kept[k][2][4]
                  /\ Units[k].normalized_form = kept[k][3]
                  /\ Units[k].dictionary_form = kept[k][4]
                  /\ Units[k].reading = kept[k][6]

\* C19 witness: the output read has a malformed line between two well-formed
\* lines, and both of them are units
C19_Witness ==
    /\ Tokenized
    /\ \E k \in 2..(Len(c_output) - 2) :
          /\ ~WellFormed(c_output[k])
          /\ WellFormed(c_output[k - 1])
          /\ WellFormed(c_output[k + 1])
          /\ \E j \in 1..(Len(Units) - 1) :
                /\ Units[j].text = c_output[k - 1][1]
                /\ Units[j + 1].text = c_output[k + 1][1]


\* ---------------------------------------------------------------------------
\* Sentences: MorphologicalAnalyser.parse from the raw text to the SentenceInfo
\* list (_preprocess_text, the tokenizer, _split_into_sentences)
\* ---------------------------------------------------------------------------

\* Longest raw text given to parse
MaxTextLen == 3

\* Characters of the raw texts: a kana, the enders 。 ！ 」, <, a line break, …
TextChars == {"ko", "MARU", "BANG", "KAGI_CLOSE", "LT", "NL", "ELLIPSIS"}

RawTexts == UNION {[1..n -> TextChars] : n \in 0..MaxTextLen}

\* _SENTENCE_ENDERS
SENTENCE_ENDERS == {"MARU", "BANG", "HATENA", "KAGI_CLOSE"}

\* The characters the character class of _preprocess_text keeps; the ASCII
\* space, < and > are not among them
KeptChars == {"ko", "MARU", "BANG", "HATENA", "KAGI_OPEN", "KAGI_CLOSE", "NL",
              "ELLIPSIS", "DASH"}

\* The spaces and line breaks _preprocess_text forces around one character
Forced(ch) ==
    CASE ch = "KAGI_OPEN"  -> <<"NL", "KAGI_OPEN", "SP">>
      [] ch = "KAGI_CLOSE" -> <<"SP", "KAGI_CLOSE", "NL">>
      [] ch = "DASH"       -> <<"SP", "DASH", "SP">>
      [] ch = "MARU"       -> <<"SP", "MARU", "NL">>
      [] ch = "BANG"       -> <<"SP", "BANG", "NL">>
      [] ch = "HATENA"     -> <<"SP", "HATENA", "NL">>
      [] OTHER             -> <<ch>>

\* _preprocess_text
PreprocessText(text) ==
    With([i \in 1..Len(text) |-> IF text[i] \in {"LT", "GT"} THEN "SP" ELSE text[i]],
         LAMBDA spaced :
    With(SelectSeq(spaced, LAMBDA ch : ch \in KeptChars), LAMBDA kept :
    With(Flatten([i \in 1..Len(kept) |-> Forced(kept[i])]), LAMBDA forced :
        Replace(forced, <<"ELLIPSIS", "NL">>, <<"MARU", "NL">>))))

\* text.replace("\r", "").replace("\n", "")
FlatText(text) == SelectSeq(text, LAMBDA ch : ch # "NL")

\* The non-empty runs of text between characters of seps
RECURSIVE Runs(_, _, _)
Runs(text, seps, current) ==
    IF text = <<>> THEN (IF current = <<>> THEN <<>> ELSE <<current>>)
    ELSE IF Head(text) \in seps
         THEN (IF current = <<>> THEN <<>> ELSE <<current>>) \o Runs(Tail(text), seps, <<>>)
         ELSE Runs(Tail(text), seps, Append(current, Head(text)))

\* Word texts the tokenizer and the passes may leave for a preprocessed text:
\* one word per character, one per run between spaces and line breaks, or one
\* per run between spaces with the line breaks ignored
Segmentations(clean) ==
    { [i \in 1..Len(FlatText(SelectSeq(clean, LAMBDA ch : ch # "SP"))) |->
          <<FlatText(SelectSeq(clean, LAMBDA ch : ch # "SP"))[i]>>],
      Runs(clean, {"SP", "NL"}, <<>>),
      Runs(FlatText(clean), {"SP"}, <<>>) }

\* SentenceInfo(text)
SentenceInfo(text) == [text |-> text, words |-> <<>>]

\* _split_into_sentences: the loop over the characters of the flat text
RECURSIVE SplitChars(_, _, _, _, _)
SplitChars(text, i, current_sentence_chars, seen_ender, sentences) ==
    IF i > Len(text)
    THEN IF current_sentence_chars # <<>>
         THEN Append(sentences, SentenceInfo(current_sentence_chars))
         ELSE sentences
    ELSE IF text[i] \in SENTENCE_ENDERS
         THEN SplitChars(text, i + 1, Append(current_sentence_chars, text[i]), TRUE, sentences)
         ELSE IF seen_ender
              THEN SplitChars(text, i + 1, <<text[i]>>, FALSE,
                              Append(sentences, SentenceInfo(current_sentence_chars)))
              ELSE SplitChars(text, i + 1, Append(current_sentence_chars, text[i]), FALSE,
                              sentences)

\* sentences with sentence idx (counted from 0) followed by its successor, merged
MergeWithNext(sentences, idx) ==
    [k \in 1..(Len(sentences) - 1) |->
        IF k < idx + 1 THEN sentences[k]
        ELSE IF k = idx + 1
             THEN [sentences[k] EXCEPT !.text = @ \o sentences[k + 1].text]
             ELSE sentences[k + 1]]

\* sentences with the word recorded in sentence idx at position 0
AppendWordAtZero(sentences, idx, word, word_idx) ==
    [sentences EXCEPT ![idx + 1].words = Append(@, <<word, 0, Len(word.text)>>)]

\* sentences with the word recorded in sentence idx at word_idx
AppendWord(sentences, idx, word, word_idx) ==
    [sentences EXCEPT ![idx + 1].words = Append(@, <<word, word_idx, Len(word.text)>>)]

\* _split_into_sentences: the while loop that assigns one word
RECURSIVE AssignWord(_, _, _, _)
AssignWord(sentences, word, idx, char) ==
    IF idx >= Len(sentences)
    THEN [sentences |-> sentences, idx |-> idx, char |-> char]
    ELSE With(Find(sentences[idx + 1].text, word.text, char), LAMBDA word_idx :
         IF word_idx >= 0
         THEN [sentences |-> AppendWord(sentences, idx, word, word_idx),
               idx |-> idx, char |-> word_idx + Len(word.text)]
         ELSE IF idx + 1 < Len(sentences)
                 /\ \E i \in 1..(Len(word.text) - 1) :
                        /\ EndsWith(Drop(sentences[idx + 1].text, char), Take(word.text, i))
                        /\ StartsWith(sentences[idx + 2].text, Drop(word.text, i))
              THEN With(MergeWithNext(sentences, idx), LAMBDA merged :
                   With(Find(merged[idx + 1].text, word.text, char), LAMBDA again :
                       IF again >= 0
                       THEN [sentences |-> AppendWord(merged, idx, word, again),
                             idx |-> idx, char |-> again + Len(word.text)]
                       ELSE AssignWord(merged, word, idx + 1, 0)))
              ELSE AssignWord(sentences, word, idx + 1, 0))

\* _split_into_sentences: the loop over word_infos
RECURSIVE AssignWords(_, _, _, _, _)
AssignWords(sentences, words, w, idx, char) ==
    IF w > Len(words) THEN sentences
    ELSE IF words[w].text = <<>> THEN AssignWords(sentences, words, w + 1, idx, char)
    ELSE With(AssignWord(sentences, words[w], idx, char), LAMBDA r :
              AssignWords(r.sentences, words, w + 1, r.idx, r.char))

\* _split_into_sentences
SplitIntoSentences(text, word_infos) ==
    AssignWords(SplitChars(FlatText(text), 1, <<>>, FALSE, <<>>), word_infos, 1, 0, 0)

SentencesInit ==
    /\ DeconjIdle /\ ScoreIdle /\ LookupIdle /\ ResolveIdle /\ CombineIdle
    /\ SentencesIdle
    /\ TokenizerIdle
    /\ MemoIdle

\* parse up to the return of the tokenizer and the passes
ParseTokenize(text, words) ==
    /\ n_pc = "start"
    /\ n_text' = text
    /\ n_clean' = PreprocessText(text)
    /\ words \in Segmentations(n_clean')
    /\ n_words' = [i \in 1..Len(words) |-> [unit |-> i, text |-> words[i]]]
    /\ n_pc' = "tokenized"
    /\ UNCHANGED <<n_sentences, d_vars, s_vars, l_vars, r_vars, c_vars, k_vars, m_vars>>

\* parse: return self._split_into_sentences(text, word_infos)
ParseSplit ==
    /\ n_pc = "tokenized"
    /\ n_sentences' = SplitIntoSentences(n_clean, n_words)
    /\ n_pc' = "done"
    /\ UNCHANGED <<n_text, n_clean, n_words, d_vars, s_vars, l_vars, r_vars, c_vars, k_vars, m_vars>>

SentencesNext ==
    \/ \E text \in RawTexts : \E words \in Segmentations(PreprocessText(text)) :
           ParseTokenize(text, words)
    \/ ParseSplit

SpecSentences == SentencesInit /\ [][SentencesNext]_vars

\* The only sentence enders of t form one run at its very end
EndersOnlyAtEnd(t) ==
    \E k \in 1..Len(t) :
        /\ \A i \in (Len(t) - k + 1)..Len(t) : t[i] \in SENTENCE_ENDERS
        /\ \A i \in 1..(Len(t) - k) : t[i] \notin SENTENCE_ENDERS

\* C15: for a raw text whose only sentence enders form one run at its very
\* end, parse returns exactly one sentence, whose text is the raw text
\* character for character
C15_OneSentenceIsWholeInput ==
    (n_pc = "done" /\ EndersOnlyAtEnd(n_text))
        => Len(n_sentences) = 1 /\ n_sentences[1].text = n_text

\* The (sentence, position) pairs of the triples of the returned sentences
Triples ==
    UNION {{<<k, j>> : j \in 1..Len(n_sentences[k].words)} : k \in 1..Len(n_sentences)}

\* The sentences as the character loop split them, before any merge
SplitOnly == SplitChars(FlatText(n_clean), 1, <<>>, FALSE, <<>>)

\* C29: in the result of sentence segmentation every (unit, start, length)
\* triple of a sentence has the unit's text at start..start+length of the
\* sentence text and the unit's text length as length; within a sentence the
\* triples are in unit order and do not overlap; this holds also after two
\* sentences were merged for a straddling unit; and each unit is in at most
\* one sentence.
C29_TriplesLocateTheirUnits ==
    n_pc = "done" =>
        /\ \A p \in Triples :
              \E s \in {n_sentences[p[1]]} : \E t \in {s.words[p[2]]} :
                  /\ t[1] \in {n_words[w] : w \in 1..Len(n_words)}
                  /\ t[3] = Len(t[1].text)
                  /\ t[2] >= 0
                  /\ t[2] + t[3] <= Len(s.text)
                  /\ SubSeq(s.text, t[2] + 1, t[2] + t[3]) = t[1].text
                  /\ p[2] > 1 =>
                        /\ t[2] >= s.words[p[2] - 1][2] + s.words[p[2] - 1][3]
                        /\ t[1].unit > s.words[p[2] - 1][1].unit
        /\ \A p, q \in Triples :
              n_sentences[p[1]].words[p[2]][1].unit = n_sentences[q[1]].words[q[2]][1].unit
                  => p = q

\* Two sentences were merged for a unit that straddles them, and the merged
\* sentence holds that unit after an earlier one
C29_Witness ==
    /\ n_pc = "done"
    /\ Len(n_sentences) < Len(SplitOnly)
    /\ \E p \in Triples :
          \E s \in {n_sentences[p[1]]} : \E t \in {s.words[p[2]]} :
              /\ p[2] > 1
              /\ t[2] < Len(SplitOnly[p[1]].text)
              /\ t[2] + t[3] > Len(SplitOnly[p[1]].text)


\* ---------------------------------------------------------------------------
\* The tokenizer: sudachi_interop.process_text called from several threads
\* ---------------------------------------------------------------------------

\* Number of threads calling process_text
MaxThreads == 3

Threads == 1..MaxThreads

\* What input_text is after the clean-up: text with kana or kanji, romaji only,
\* or nothing
InputKinds == {"japanese", "romaji", "empty"}

TokenizerInit ==
    /\ DeconjIdle /\ ScoreIdle /\ LookupIdle /\ ResolveIdle /\ CombineIdle
    /\ SentencesIdle
    /\ MemoIdle
    /\ k_lock = 0
    /\ k_pc = [t \in Threads |-> "idle"]
    /\ k_input = [t \in Threads |-> ""]
    /\ k_freed = <<>>

\* A thread calls process_text(config_path, input_text, ...)
ProcessTextCall(t, input) ==
    /\ k_pc[t] = "idle"
    /\ k_pc' = [k_pc EXCEPT ![t] = "waiting"]
    /\ k_input' = [k_input EXCEPT ![t] = input]
    /\ UNCHANGED <<k_lock, k_freed, d_vars, s_vars, l_vars, r_vars, c_vars, n_vars, m_vars>>

\* entering the with block although another thread is in it
AcquireUnguarded(t) ==
    /\ k_pc[t] = "waiting"
    /\ k_lock' = t
    /\ k_pc' = [k_pc EXCEPT ![t] = "locked"]
    /\ UNCHANGED <<k_input, k_freed, d_vars, s_vars, l_vars, r_vars, c_vars, n_vars, m_vars>>

\* with _PROCESS_TEXT_LOCK: the thread enters once the lock is free
Acquire(t) ==
    /\ k_pc[t] = "waiting"
    /\ k_lock = 0
    /\ k_lock' = t
    /\ k_pc' = [k_pc EXCEPT ![t] = "locked"]
    /\ UNCHANGED <<k_input, k_freed, d_vars, s_vars, l_vars, r_vars, c_vars, n_vars, m_vars>>

\* lines 89-100: clean the text; return "" (leaving the with block) when
\* nothing or only romaji is left, else call _process_text_ffi
CleanUp(t) ==
    /\ k_pc[t] = "locked"
    /\ IF k_input[t] \in {"empty", "romaji"}
       THEN /\ k_pc' = [k_pc EXCEPT ![t] = "done"]
            /\ k_lock' = 0
       ELSE /\ k_pc' = [k_pc EXCEPT ![t] = "native"]
            /\ k_lock' = k_lock
    /\ UNCHANGED <<k_input, k_freed, d_vars, s_vars, l_vars, r_vars, c_vars, n_vars, m_vars>>

\* lines 102-112: _process_text_ffi returns result_ptr and the result is decoded
ProcessTextFfiReturn(t) ==
    /\ k_pc[t] = "native"
    /\ k_pc' = [k_pc EXCEPT ![t] = "result"]
    /\ UNCHANGED <<k_lock, k_input, k_freed, d_vars, s_vars, l_vars, r_vars, c_vars, n_vars, m_vars>>

\* line 113: _free_string(result_ptr)
FreeString(t) ==
    /\ k_pc[t] = "result"
    /\ k_freed' = Append(k_freed, t)
    /\ k_pc' = [k_pc EXCEPT ![t] = "freed"]
    /\ UNCHANGED <<k_lock, k_input, d_vars, s_vars, l_vars, r_vars, c_vars, n_vars, m_vars>>

\* line 114: return result, leaving the with block
ProcessTextReturn(t) ==
    /\ k_pc[t] = "freed"
    /\ k_pc' = [k_pc EXCEPT ![t] = "done"]
    /\ k_lock' = 0
    /\ UNCHANGED <<k_input, k_freed, d_vars, s_vars, l_vars, r_vars, c_vars, n_vars, m_vars>>

TokenizerNext ==
    \E t \in Threads :
        \/ \E input \in InputKinds : ProcessTextCall(t, input)
        \/ Acquire(t)
        \/ CleanUp(t)
        \/ ProcessTextFfiReturn(t)
        \/ FreeString(t)
        \/ ProcessTextReturn(t)

SpecTokenizer == TokenizerInit /\ [][TokenizerNext]_vars

\* The places of process_text inside the with block
InsideLock == {"locked", "native", "result", "freed"}

\* C18: at most one thread at a time is inside the native tokenizer call; while
\* a thread is between entering the with block and leaving it with its result
\* freed, every other caller is before the block or has left it.
C18_TokenizerCallsAreSerialized ==
    \A t \in Threads :
        k_pc[t] \in InsideLock =>
            /\ k_lock = t
            /\ \A u \in Threads \ {t} : k_pc[u] \in {"idle", "waiting", "done"}

\* One thread is inside the native call while a second caller waits and a
\* third has returned with its result freed
C18_Witness ==
    \E t, u, v \in Threads :
        /\ k_pc[t] = "native"
        /\ k_pc[u] = "waiting"
        /\ k_pc[v] = "done"
        /\ k_freed = <<v>>


\* ---------------------------------------------------------------------------
\* The resolved-word memo under concurrent Parser._process_word calls
\* ---------------------------------------------------------------------------

\* The threads calling _process_word
MemoThreads == {1, 2}

\* The number of _process_word calls the threads make together
MaxMemoCalls == 3

\* The units resolved: たべた tokenized with the normalized form 食べる and with
\* the normalized form 喰べる (one text, POS and dictionary form), たべ, ろ
MemoWords == {
    WordInfo(<<"ta", "be", "ta">>, "VERB", "COMMON", "NONE", "NONE",
             <<"K1", "be", "ru">>, <<"ta", "be", "ru">>, <<"TA", "BE", "TA">>),
    WordInfo(<<"ta", "be", "ta">>, "VERB", "COMMON", "NONE", "NONE",
             <<"K2", "be", "ru">>, <<"ta", "be", "ru">>, <<"TA", "BE", "TA">>),
    WordInfo(<<"ta", "be">>, "NOUN", "COMMON", "NONE", "NONE",
             <<"ta", "be">>, <<"ta", "be">>, <<"TA", "BE">>),
    WordInfo(<<"ro">>, "PARTICLE", "NONE", "NONE", "NONE", <<"ro">>, <<"ro">>, <<"ro">>)
}

MemoInit ==
    /\ DeconjIdle /\ ScoreIdle /\ LookupIdle /\ ResolveIdle /\ CombineIdle
    /\ SentencesIdle
    /\ TokenizerIdle
    /\ m_env \in {[dict |-> d, order |-> o] :
                    d \in {Dictionary(<<"ichi1">>, <<>>, <<"n">>),
                           Dictionary(<<>>, <<"news2">>, <<"n", "uk">>)},
                    o \in {1, 2}}
    /\ m_cache = <<>>
    /\ m_pc = [t \in MemoThreads |-> "idle"]
    /\ m_word = [t \in MemoThreads |-> <<>>]
    /\ m_result = [t \in MemoThreads |-> <<>>]
    /\ m_replaced = {}
    /\ m_calls = 0

\* _process_word, lines 176-179: the thread reads the memo; a hit returns a
\* copy of the entry
ProcessWordGet(t, word_info) ==
    /\ m_pc[t] = "idle"
    /\ m_calls < MaxMemoCalls
    /\ m_calls' = m_calls + 1
    /\ m_word' = [m_word EXCEPT ![t] = word_info]
    /\ IF CacheKey(word_info) \in DOMAIN m_cache
       THEN /\ m_result' = [m_result EXCEPT ![t] = <<m_cache[CacheKey(word_info)]>>]
            /\ m_pc' = [m_pc EXCEPT ![t] = "done"]
       ELSE /\ m_result' = [m_result EXCEPT ![t] = <<>>]
            /\ m_pc' = [m_pc EXCEPT ![t] = "missed"]
    /\ UNCHANGED <<m_env, m_cache, m_replaced,
                   d_vars, s_vars, l_vars, r_vars, c_vars, n_vars, k_vars>>

\* _process_word, lines 181-222, after a miss: the ladder, then the set of the
\* word found, then the return
ProcessWordSet(t) ==
    /\ m_pc[t] = "missed"
    /\ \E out \in {Ladder(m_word[t], 0, m_env.dict, m_env.order)} :
          /\ m_result' = [m_result EXCEPT ![t] = out.word]
          /\ IF out.word # <<>>
             THEN /\ m_cache' = [k \in DOMAIN m_cache \cup {CacheKey(m_word[t])} |->
                                    IF k = CacheKey(m_word[t]) THEN out.word[1]
                                    ELSE m_cache[k]]
                  /\ m_replaced' =
                        IF CacheKey(m_word[t]) \in DOMAIN m_cache
                        THEN m_replaced \cup {<<m_cache[CacheKey(m_word[t])], out.word[1]>>}
                        ELSE m_replaced
             ELSE UNCHANGED <<m_cache, m_replaced>>
    /\ m_pc' = [m_pc EXCEPT ![t] = "done"]
    /\ UNCHANGED <<m_env, m_word, m_calls,
                   d_vars, s_vars, l_vars, r_vars, c_vars, n_vars, k_vars>>

\* The caller takes the result; the thread is ready for its next call
ProcessWordReturn(t) ==
    /\ m_pc[t] = "done"
    /\ m_pc' = [m_pc EXCEPT ![t] = "idle"]
    /\ UNCHANGED <<m_env, m_cache, m_word, m_result, m_replaced, m_calls,
                   d_vars, s_vars, l_vars, r_vars, c_vars, n_vars, k_vars>>

MemoNext ==
    \E t \in MemoThreads :
        \/ \E word_info \in MemoWords : ProcessWordGet(t, word_info)
        \/ ProcessWordSet(t)
        \/ ProcessWordReturn(t)

SpecMemo == MemoInit /\ [][MemoNext]_vars

\* C17: under any interleaving of concurrent resolve calls, every entry
\* readable in the resolved-word memo equals the result a call with the same
\* key computes on its own, and a set on a key already stored replaces the
\* entry by an equal value.
C17_MemoEntriesAreSequentialResults ==
    /\ \A t \in MemoThreads :
           (m_pc[t] \in {"missed", "done"} /\ CacheKey(m_word[t]) \in DOMAIN m_cache)
               => <<m_cache[CacheKey(m_word[t])]>>
                      = Ladder(m_word[t], 0, m_env.dict, m_env.order).word
    /\ \A p \in m_replaced : p[1] = p[2]

====
